---- MODULE Spec2Model ----
(***************************************************************************)
(* notion-financial-service: the resilient record-store client            *)
(* (NotionClient: rate limiter, retry loop, cache) and the decision        *)
(* transition of SpendingRequestService, as a state machine.               *)
(*                                                                         *)
(* Time is counted in ticks of TickMs milliseconds; the configured         *)
(* durations are small numbers of ticks.  One step of the model is one     *)
(* run of the event loop: a public call up to its first suspension, a timer*)
(* callback, the arrival of a transport response, each together with the   *)
(* synchronous code it runs.  Continuations that the code resumes in a     *)
(* microtask (pc "released", a settled getPage of updateDecision) run      *)
(* before any timer or response; a caller can make further public calls    *)
(* in the turn of its first one, before those continuations run.           *)
(***************************************************************************)
EXTENDS Integers, Sequences, FiniteSets, TLC

\* ------------------------------------------------------------------------
\* Configuration of the client (NotionClientConfig), in ticks
\* ------------------------------------------------------------------------
MaxRetries == 2
BaseDelay == 1
MaxDelay == 2
RequestTimeout == 3
MinInterval == 2
TtlMs == 3
MaxSize == 2
\* milliseconds in one tick; the code's fixed durations are scaled by it
TickMs == 15000
\* setInterval(() => this.cleanupCache(), 60000)
CleanupInterval == 60000 \div TickMs
\* a date is a count of ticks since the epoch; a day (UTC) has TicksPerDay
TicksPerDay == 86400000 \div TickMs

\* Bounds of the model
MaxTime == 8
\* calls the client can have outstanding at once, and the callers the
\* specifications of the client let make them
NumSlots == 5
NumCallers == 2

Slots == 1..NumSlots
Callers == 1..NumCallers
NoTimer == 0 - 1
NoTime == 0 - 1

\* the pages the spending-request database holds at the start, and the ids
\* the store gives to the pages created later
PageIds == {"p1", "p12"}
NewPageIds == {"p2"}
AllPageIds == PageIds \cup NewPageIds
\* config.databaseId: the database of the spending requests, whose pages
\* the model keeps
DatabaseIds == {"db"}
Decisions == {"Approved", "Denied"}
Reasonings == {"fits the monthly budget", "too short"}

\* ------------------------------------------------------------------------
\* Pages of the external store
\* ------------------------------------------------------------------------
NoDate == 0 - 1

\* A page of the spending-request database: complete tells whether the
\* required properties Title, Amount, Category and Urgency are all present;
\* category, amount and urgency are their values and requestDate that of
\* Request Date when they are ("", 0, "" and NoDate otherwise).
\* no page: null for the parser, a page not created yet in the store
NoPage ==
    [status |-> "", reasoning |-> "", decisionDate |-> NoDate, complete |-> FALSE,
     category |-> "", amount |-> 0, urgency |-> "", requestDate |-> NoDate]
\* a decided or pending request with all its properties
CompletePage(status, category, amount, urgency, requestDate) ==
    [status |-> status, reasoning |-> "", decisionDate |-> NoDate, complete |-> TRUE,
     category |-> category, amount |-> amount, urgency |-> urgency,
     requestDate |-> requestDate]
\* a page whose required properties are all present, Status = Pending
PendingPage == CompletePage("Pending", "Food", 50, "Low", 0)
\* a page with a required property (Title, Amount, Category or Urgency) missing
IncompletePage == [NoPage EXCEPT !.status = "Pending"]
NoPages == [p \in AllPageIds |-> NoPage]
\* the properties argument of updatePage and createPage; Complete: Title,
\* Amount, Category and Urgency are among them
Props(status, reasoning, decisionDate, complete) ==
    [Status |-> status, Reasoning |-> reasoning, DecisionDate |-> decisionDate,
     Complete |-> complete]
NoProps == Props("", "", NoDate, FALSE)
\* the filter and sorts argument of queryDatabase, undefined
NoFilter == ""

\* what a call returns
Result(kind, page, pages) == [kind |-> kind, page |-> page, pages |-> pages, id |-> ""]
\* what createPage returns: response.id
CreatedResult(id) == [kind |-> "id", page |-> NoPage, pages |-> NoPages, id |-> id]
NoResult == Result("none", NoPage, NoPages)

\* ------------------------------------------------------------------------
\* Errors
\* ------------------------------------------------------------------------
\* retryAfter of an error that has none (undefined)
NoRetryAfter == 0 - 1

NoError == [name |-> "none", code |-> "", statusCode |-> 0, retryAfter |-> NoRetryAfter]

NotionError(code, statusCode) ==
    [name |-> "NotionError", code |-> code, statusCode |-> statusCode, retryAfter |-> NoRetryAfter]
NotionRateLimitError(retryAfter) ==
    [name |-> "NotionRateLimitError", code |-> "RATE_LIMITED", statusCode |-> 429, retryAfter |-> retryAfter]
NotionAuthError ==
    [name |-> "NotionAuthError", code |-> "UNAUTHORIZED", statusCode |-> 401, retryAfter |-> NoRetryAfter]
NotionPermissionError ==
    [name |-> "NotionPermissionError", code |-> "FORBIDDEN", statusCode |-> 403, retryAfter |-> NoRetryAfter]
NotionNotFoundError ==
    [name |-> "NotionNotFoundError", code |-> "NOT_FOUND", statusCode |-> 404, retryAfter |-> NoRetryAfter]
NotionTimeoutError ==
    [name |-> "NotionTimeoutError", code |-> "TIMEOUT", statusCode |-> 408, retryAfter |-> NoRetryAfter]
NotionConnectionError ==
    [name |-> "NotionConnectionError", code |-> "CONNECTION_ERROR", statusCode |-> 0, retryAfter |-> NoRetryAfter]

\* An error as the transport raises it: code ("" when it has none), HTTP
\* status (0 when it has none), whether the message contains "timeout", and
\* the retry-after header, a string of digits, by the number it spells
\* (NoHeader when absent).
RawError(code, status, msgTimeout, retryAfter) ==
    [code |-> code, status |-> status, msgTimeout |-> msgTimeout, retryAfter |-> retryAfter]
NoHeader == 0 - 1
NoRaw == RawError("none", 0, FALSE, NoHeader)

\* the error the timeout of withRetry rejects with: NotionTimeoutError('Request timeout')
TimeoutRejection == RawError("TIMEOUT", 408, TRUE, NoHeader)

handleNotionError(error) ==
    IF error.code \in {"ECONNREFUSED", "ENOTFOUND", "ECONNRESET"} THEN NotionConnectionError
    ELSE IF error.code = "ETIMEDOUT" \/ error.msgTimeout THEN NotionTimeoutError
    ELSE IF error.code # "" THEN
        CASE error.code = "Unauthorized" -> NotionAuthError
          [] error.code = "Forbidden" -> NotionPermissionError
          [] error.code = "ObjectNotFound" -> NotionNotFoundError
          [] error.code = "RateLimited" ->
                \* retryAfter ? parseInt(retryAfter) : undefined, and the
                \* string "0" is truthy
                NotionRateLimitError(IF error.retryAfter # NoHeader
                                     THEN error.retryAfter ELSE NoRetryAfter)
          [] error.code = "InternalServerError" -> NotionError("INTERNAL_ERROR", 500)
          [] error.code = "ServiceUnavailable" -> NotionError("SERVICE_UNAVAILABLE", 503)
          [] OTHER -> NotionError(error.code, error.status)
    ELSE IF error.status = 429 THEN NotionRateLimitError(NoRetryAfter)
    ELSE NotionError("UNKNOWN", error.status)

\* ------------------------------------------------------------------------
\* Strings
\* ------------------------------------------------------------------------
\* String.prototype.includes
Includes(str, sub) ==
    \E i \in 1..(Len(str) - Len(sub) + 1) : SubSeq(str, i, i + Len(sub) - 1) = sub

Quote(str) == "\"" \o str \o "\""

\* JSON.stringify of the parameter objects of the three cached operations
StringifyPageParams(pageId) == "{" \o Quote("pageId") \o ":" \o Quote(pageId) \o "}"
StringifyDatabaseParams(databaseId) == "{" \o Quote("databaseId") \o ":" \o Quote(databaseId) \o "}"
\* { databaseId, filter, sorts }: undefined members are left out; filter
\* stands for the filter and the sorts a caller passes together
StringifyQueryParams(databaseId, filter) ==
    IF filter = NoFilter THEN StringifyDatabaseParams(databaseId)
    ELSE "{" \o Quote("databaseId") \o ":" \o Quote(databaseId) \o ","
             \o Quote("filter") \o ":" \o Quote(filter) \o "}"

getCacheKey(operation, params) == operation \o ":" \o params

\* the key each operation passes to withRetry ("" when it passes none)
CacheKeyOf(op, arg, filter) ==
    CASE op = "getPage" -> getCacheKey("getPage", StringifyPageParams(arg))
      [] op = "queryDatabase" -> getCacheKey("queryDatabase", StringifyQueryParams(arg, filter))
      [] op = "getDatabaseSchema" -> getCacheKey("getDatabaseSchema", StringifyDatabaseParams(arg))
      [] OTHER -> ""

\* ------------------------------------------------------------------------
\* The cache: a Map, kept as the sequence of its entries in insertion order
\* ------------------------------------------------------------------------
CacheEntry(key, data, timestamp, ttl) ==
    [key |-> key, data |-> data, timestamp |-> timestamp, ttl |-> ttl]

CacheHas(c, key) == \E i \in 1..Len(c) : c[i].key = key
CacheIndex(c, key) == CHOOSE i \in 1..Len(c) : c[i].key = key
CacheGet(c, key) == c[CacheIndex(c, key)]
CacheKeys(c) == {c[i].key : i \in 1..Len(c)}

\* Map.delete
CacheDelete(c, key) == SelectSeq(c, LAMBDA e : e.key # key)

\* Map.set: a present key keeps its place, a new key goes last
CacheSet(c, entry) ==
    IF CacheHas(c, entry.key)
    THEN [c EXCEPT ![CacheIndex(c, entry.key)] = entry]
    ELSE Append(c, entry)

\* getFromCache as if an entry expired as soon as its age reached its ttl
CacheHitExpiresAtTtl(enabled, c, key, t) ==
    /\ enabled
    /\ CacheHas(c, key)
    /\ ~(t - CacheGet(c, key).timestamp >= CacheGet(c, key).ttl)

\* getFromCache: whether the lookup of key at time t yields the entry's data
CacheHit(enabled, c, key, t) ==
    /\ enabled
    /\ CacheHas(c, key)
    /\ ~(t - CacheGet(c, key).timestamp > CacheGet(c, key).ttl)

\* getFromCache: the cache it leaves (an expired entry is deleted)
getFromCache(enabled, c, key, t) ==
    IF enabled /\ CacheHas(c, key) /\ t - CacheGet(c, key).timestamp > CacheGet(c, key).ttl
    THEN CacheDelete(c, key)
    ELSE c

setCache(enabled, c, key, data, t) ==
    IF ~enabled THEN c ELSE CacheSet(c, CacheEntry(key, data, t, TtlMs))

\* the loop of updatePage's operation: delete every key that includes pageId
InvalidatePage(c, pageId) == SelectSeq(c, LAMBDA e : ~Includes(e.key, pageId))

\* entries ordered by timestamp, ties in insertion order (Array.sort is stable)
RECURSIVE SortByTimestamp(_)
SortByTimestamp(c) ==
    IF c = <<>> THEN <<>>
    ELSE LET i == CHOOSE i \in 1..Len(c) :
                    /\ \A j \in 1..Len(c) : c[i].timestamp <= c[j].timestamp
                    /\ \A j \in 1..(i - 1) : c[j].timestamp # c[i].timestamp
         IN  <<c[i]>> \o SortByTimestamp(SelectSeq(c, LAMBDA e : e.key # c[i].key))

cleanupCache(c, t) ==
    LET live == SelectSeq(c, LAMBDA e : ~(t - e.timestamp > e.ttl))
        excess == Len(live) - MaxSize
        oldest == IF excess > 0 THEN {SortByTimestamp(live)[i].key : i \in 1..excess} ELSE {}
    IN  SelectSeq(live, LAMBDA e : e.key \notin oldest)

\* ------------------------------------------------------------------------
\* Request metrics
\* ------------------------------------------------------------------------
startMetrics(t) ==
    [startTime |-> t, endTime |-> NoTime, success |-> FALSE, error |-> NoError, retryCount |-> 0]

\* endMetrics as if called without its retryCount argument (the default 0)
endMetricsDefaultRetryCount(m, t, success, error, retryCount) ==
    [m EXCEPT !.endTime = t, !.success = success, !.error = error, !.retryCount = 0]

endMetrics(m, t, success, error, retryCount) ==
    [m EXCEPT !.endTime = t, !.success = success, !.error = error, !.retryCount = retryCount]

\* ------------------------------------------------------------------------
\* Backoff
\* ------------------------------------------------------------------------
RECURSIVE Pow2(_)
Pow2(n) == IF n = 0 THEN 1 ELSE 2 * Pow2(n - 1)

Min(a, b) == IF a < b THEN a ELSE b

\* calculateBackoffDelay for a client configured with maxDelay: the delays
\* the random jitter (less than a tenth of the exponential delay) can give
BackoffDelay(attempt, baseDelay, maxDelay) ==
    LET exponentialDelay == baseDelay * Pow2(attempt)
    IN  {Min(exponentialDelay + jitter, maxDelay) :
            jitter \in {j \in 0..exponentialDelay : 10 * j < exponentialDelay}}

calculateBackoffDelay(attempt, baseDelay) == BackoffDelay(attempt, baseDelay, MaxDelay)

\* the wait the catch block of withRetry sleeps after a failed attempt that
\* is retried, for a client configured with baseDelay and maxDelay, in units
\* of unitMs milliseconds
RetryDelay(lastError, attempt, baseDelay, maxDelay, unitMs) ==
    IF /\ lastError.name = "NotionRateLimitError"
       /\ lastError.retryAfter # NoRetryAfter /\ lastError.retryAfter # 0
    THEN {(lastError.retryAfter * 1000) \div unitMs}
    ELSE BackoffDelay(attempt, baseDelay, maxDelay)

\* the wait withRetry sleeps after a failed attempt that is retried
RetryDelays(lastError, attempt) == RetryDelay(lastError, attempt, BaseDelay, MaxDelay, TickMs)

NonRetryableNames == {"NotionAuthError", "NotionPermissionError", "NotionNotFoundError"}

\* the non-retryable test with the not-found case left out
NonRetryableWithoutNotFound(lastError) ==
    lastError.name \in {"NotionAuthError", "NotionPermissionError"}

\* whether withRetry gives up on lastError without another attempt
NonRetryable(lastError) == lastError.name \in NonRetryableNames

\* the loop bound off by one
LastAttemptOffByOne(attempt) == attempt = MaxRetries + 1

\* the loop bound of withRetry: attempt is the last one
LastAttempt(attempt) == attempt = MaxRetries

\* ------------------------------------------------------------------------
\* Errors the transport can raise
\* ------------------------------------------------------------------------
ApiCodes == {"Unauthorized", "Forbidden", "ObjectNotFound", "RateLimited",
             "InternalServerError", "ServiceUnavailable", "validation_error"}
NetworkCodes == {"ECONNREFUSED", "ENOTFOUND", "ECONNRESET", "ETIMEDOUT"}

HttpStatusOf(code) ==
    CASE code = "Unauthorized" -> 401
      [] code = "Forbidden" -> 403
      [] code = "ObjectNotFound" -> 404
      [] code = "RateLimited" -> 429
      [] code = "InternalServerError" -> 500
      [] code = "ServiceUnavailable" -> 503
      [] code = "validation_error" -> 400
      [] OTHER -> 0

\* retry-after headers, in seconds
RetryAfters == {NoHeader, 0, 15}

\* API errors and network errors by their code, rate limits with a retry-after
\* header, and errors without a code (with a status or a timeout message)
TransportErrors ==
    {RawError(c, HttpStatusOf(c), FALSE, NoHeader) : c \in ApiCodes \cup NetworkCodes}
    \cup {RawError("RateLimited", 429, FALSE, r) : r \in RetryAfters}
    \cup {RawError("", st, m, NoHeader) : st \in {0, 429, 500}, m \in BOOLEAN}

\* ------------------------------------------------------------------------
\* State
\* ------------------------------------------------------------------------
VARIABLES
    now,               \* Date.now(), in ticks
    cacheEnabled,      \* config.cache.enabled
    lastRequestTime,   \* NotionClient.lastRequestTime
    requestQueue,      \* NotionClient.requestQueue: the slots whose resolver is queued
    isProcessingQueue, \* NotionClient.isProcessingQueue
    queueWake,         \* when the sleep of processQueue ends (NoTimer: none)
    cleanupAt,         \* when the cleanup interval fires next (NoTimer: none)
    cache,             \* NotionClient.cache
    metrics,           \* the RequestMetrics object of each slot's withRetry
    call,              \* the withRetry invocation of each slot
    svc,               \* the public call each slot is serving
    flights,           \* transport calls sent and not yet answered; live: the
                       \* attempt still awaits it; superseded: its call has ended
                       \* and the slot serves a later one
    store,             \* the pages of the external store
    build,             \* the context build in progress: its stage, the fetches it has
                       \* still to start in the running turn, what each part of the
                       \* context settled as, the fetches that failed
    input,             \* the arguments of the pure function under evaluation
    output             \* what it returned (NoOutput: not evaluated yet)

vars == <<now, cacheEnabled, lastRequestTime, requestQueue, isProcessingQueue, queueWake,
          cleanupAt, cache, metrics, call, svc, flights, store, build, input, output>>

\* the variables of the pure functions
pure == <<input, output>>

\* the variables of the client and the store
client == <<now, cacheEnabled, lastRequestTime, requestQueue, isProcessingQueue, queueWake,
            cleanupAt, cache, metrics, call, svc, flights, store, build>>

NoInput == [fn |-> "none"]
NoOutput == [fn |-> "none"]

limiter == <<lastRequestTime, requestQueue, isProcessingQueue, queueWake>>

IdleCall ==
    [pc |-> "idle", op |-> "none", arg |-> "", filter |-> NoFilter, props |-> NoProps, key |-> "",
     attempt |-> 0, retryCount |-> 0, lastError |-> NoError, wake |-> NoTimer,
     timeoutAt |-> NoTimer, sent |-> 0, result |-> NoResult, fromCache |-> FALSE,
     raised |-> NoRaw]

IdleSvc ==
    [kind |-> "none", decision |-> "", reasoning |-> "", stage |-> "none",
     outcome |-> "", statusAtCall |-> ""]

NoMetrics == [startTime |-> NoTime, endTime |-> NoTime, success |-> FALSE,
              error |-> NoError, retryCount |-> 0]

\* what each part of a context has settled as ("": not yet)
NoParts == [goals |-> "", debts |-> "", accounts |-> "", availableFunds |-> "",
            budget |-> "", recentSimilar |-> ""]

\* no build has been called; defaultMonthlyBudget is the configuration of
\* FinancialDataService
NoBuild == [fn |-> "none", stage |-> "none", toLaunch |-> <<>>, parts |-> NoParts,
            failed |-> {}, defaultMonthlyBudget |-> 3000]

\* the client and the services after their constructors, the services
\* configured as in b, the store as it is then, one of stores
InitClientStoring(b, stores) ==
    /\ build = b
    /\ now = MinInterval
    /\ cacheEnabled \in BOOLEAN
    /\ lastRequestTime = 0
    /\ requestQueue = <<>>
    /\ isProcessingQueue = FALSE
    /\ queueWake = NoTimer
    /\ cleanupAt = IF cacheEnabled THEN now + CleanupInterval ELSE NoTimer
    /\ cache = <<>>
    /\ metrics = [s \in Slots |-> NoMetrics]
    /\ call = [s \in Slots |-> IdleCall]
    /\ svc = [s \in Slots |-> IdleSvc]
    /\ flights = {}
    /\ store \in stores

\* the pages of PageIds exist, those of NewPageIds do not yet
InitialStores ==
    {st \in [AllPageIds -> {PendingPage, IncompletePage, NoPage}] :
        \A p \in AllPageIds : st[p] = NoPage <=> p \in NewPageIds}

InitClientWith(b) == InitClientStoring(b, InitialStores)

InitClient == InitClientWith(NoBuild)

Init ==
    /\ InitClient
    /\ input = NoInput
    /\ output = NoOutput

\* ------------------------------------------------------------------------
\* The public call a slot serves
\* ------------------------------------------------------------------------
\* the error code updateDecision throws, "OK" when it returned, "" while it runs
Outcome(s) ==
    IF svc[s].kind # "updateDecision" THEN ""
    ELSE IF svc[s].outcome # "" THEN svc[s].outcome
    ELSE IF call[s].pc = "failed" THEN "UPDATE_DECISION_ERROR"
    ELSE IF svc[s].stage = "update" /\ call[s].pc = "done" THEN "OK"
    ELSE ""

\* the promise of the slot's public call is settled (or the slot was never used)
Settled(s) ==
    CASE svc[s].kind = "none" -> TRUE
      [] svc[s].kind = "client" -> call[s].pc \in {"done", "failed"}
      [] svc[s].kind = "fetch" -> svc[s].outcome # ""
      [] OTHER -> Outcome(s) # ""

\* the synchronous code of the build still has fetches to start: nothing
\* else runs until it has
Launching == build.toLaunch # <<>>

\* slot s can take a call: its last call has settled and was not a fetch of
\* the build (every query of a build has a RequestMetrics object of its own)
Unoccupied(s) == Settled(s) /\ svc[s].kind # "fetch"

\* the queries a running build may still start in a later turn:
\* buildFinancialContext the one of calculateAvailableFunds,
\* buildDecisionContext those of Promise.all and of
\* getCategorySpendingForPeriod
ReservedSlots ==
    IF output # NoOutput THEN 0
    ELSE CASE build.fn = "buildFinancialContext" /\ build.stage = "gather" -> 1
           [] build.fn = "buildDecisionContext" /\ build.stage = "spending" -> 4
           [] build.fn = "buildDecisionContext" /\ build.stage = "gather" -> 1
           [] OTHER -> 0

\* a caller can use slot s for a new public call: no synchronous code is
\* running, the slot is unoccupied and the slots a build will need stay so
SlotFree(s) ==
    /\ ~Launching
    /\ Unoccupied(s)
    /\ Cardinality({t \in Slots \ {s} : Unoccupied(t)}) >= ReservedSlots

\* getPage of updateDecision has returned and updateDecision has not resumed yet
ContinuationPending(s) ==
    /\ svc[s].kind = "updateDecision"
    /\ svc[s].stage = "get"
    /\ svc[s].outcome = ""
    /\ call[s].pc = "done"

\* the query of a fetch of the build has settled and the service function
\* awaiting it has not resumed yet
FetchSettled(s) ==
    /\ svc[s].kind = "fetch"
    /\ svc[s].outcome = ""
    /\ call[s].pc \in {"done", "failed"}

\* buildFinancialContext awaits Promise.all(promises) and every promise has
\* been taken in: it has yet to resume and call calculateAvailableFunds.
\* (When the last promise is a fetch, FetchSettles resumes the build in the
\* step that takes it in; this is the case of no fetch at all.)
PromiseAllResolved ==
    /\ build.fn = "buildFinancialContext"
    /\ build.stage = "gather"
    /\ build.toLaunch = <<>>
    /\ \A n \in {"goals", "debts", "accounts"} : build.parts[n] # ""

MicrotaskPending ==
    \/ Launching
    \/ PromiseAllResolved
    \/ \E s \in Slots : call[s].pc = "released" \/ ContinuationPending(s) \/ FetchSettled(s)

\* ------------------------------------------------------------------------
\* Rate limiter
\* ------------------------------------------------------------------------
RateLimited == now - lastRequestTime < MinInterval

\* processQueue, up to its first await
processQueue ==
    IF isProcessingQueue
    THEN UNCHANGED <<isProcessingQueue, queueWake>>
    ELSE /\ isProcessingQueue' = TRUE
         /\ queueWake' = now + MinInterval

\* enforceRateLimit, called for slot s: its promise resolves at once or its
\* resolver is queued
enforceRateLimit(s) ==
    IF RateLimited
    THEN /\ requestQueue' = Append(requestQueue, s)
         /\ processQueue
         /\ UNCHANGED lastRequestTime
    ELSE /\ lastRequestTime' = now
         /\ UNCHANGED <<requestQueue, isProcessingQueue, queueWake>>

\* processQueue as if it released one request per call: an if in place of
\* the while
ProcessQueueWakeOnce ==
    /\ ~MicrotaskPending
    /\ isProcessingQueue
    /\ queueWake # NoTimer /\ now >= queueWake
    /\ requestQueue # <<>>
    /\ LET s == Head(requestQueue)
       IN  /\ requestQueue' = Tail(requestQueue)
           /\ lastRequestTime' = now
           /\ call' = [call EXCEPT ![s].pc = "released"]
           /\ isProcessingQueue' = FALSE
           /\ queueWake' = NoTimer
    /\ UNCHANGED <<now, cacheEnabled, cleanupAt, cache, metrics, svc, flights, store, build, pure>>

\* processQueue, resumed when its sleep ends: release the head of the queue,
\* then sleep again or stop
ProcessQueueWake ==
    /\ ~MicrotaskPending
    /\ isProcessingQueue
    /\ queueWake # NoTimer /\ now >= queueWake
    /\ requestQueue # <<>>
    /\ LET s == Head(requestQueue)
       IN  /\ requestQueue' = Tail(requestQueue)
           /\ lastRequestTime' = now
           /\ call' = [call EXCEPT ![s].pc = "released"]
           /\ IF Tail(requestQueue) # <<>>
              THEN /\ queueWake' = now + MinInterval
                   /\ UNCHANGED isProcessingQueue
              ELSE /\ isProcessingQueue' = FALSE
                   /\ queueWake' = NoTimer
    /\ UNCHANGED <<now, cacheEnabled, cleanupAt, cache, metrics, svc, flights, store, build, pure>>

\* ------------------------------------------------------------------------
\* withRetry
\* ------------------------------------------------------------------------
\* slot s begins a new call: transport calls still in flight for it belong
\* to a call that has ended (history, read by no action)
Supersede(s) ==
    flights' = {IF f.slot = s THEN [f EXCEPT !.superseded = TRUE] ELSE f : f \in flights}

\* withRetry from its call to its first suspension: metrics, cache lookup,
\* and enforceRateLimit of attempt 0
withRetry(s, op, arg, filter, props) ==
    LET key == CacheKeyOf(op, arg, filter)
        hit == key # "" /\ CacheHit(cacheEnabled, cache, key, now)
        fresh == [IdleCall EXCEPT !.op = op, !.arg = arg, !.filter = filter,
                                  !.props = props, !.key = key]
    IN  /\ Supersede(s)
        /\ cache' = IF key # "" THEN getFromCache(cacheEnabled, cache, key, now) ELSE cache
        /\ IF hit
           THEN /\ call' = [call EXCEPT ![s] = [fresh EXCEPT !.pc = "done",
                                                   !.result = CacheGet(cache, key).data,
                                                   !.fromCache = TRUE]]
                /\ metrics' = [metrics EXCEPT ![s] =
                                  endMetrics(startMetrics(now), now, TRUE, NoError, 0)]
                /\ UNCHANGED limiter
           ELSE /\ call' = [call EXCEPT ![s] = [fresh EXCEPT !.pc =
                                                   IF RateLimited THEN "rate" ELSE "released"]]
                /\ metrics' = [metrics EXCEPT ![s] = startMetrics(now)]
                /\ enforceRateLimit(s)

\* the resolved enforceRateLimit resumes withRetry: arm the timeout and call
\* the operation, which sends its request
Send(s) ==
    /\ ~Launching
    /\ call[s].pc = "released"
    /\ call' = [call EXCEPT ![s].pc = "flight",
                            ![s].timeoutAt = now + RequestTimeout,
                            ![s].sent = @ + 1]
    /\ flights' = flights \cup
          {[slot |-> s, attempt |-> call[s].attempt, op |-> call[s].op, arg |-> call[s].arg,
            filter |-> call[s].filter, props |-> call[s].props, phase |-> "sent", live |-> TRUE, superseded |-> FALSE,
            result |-> NoResult]}
    /\ UNCHANGED <<now, cacheEnabled, limiter, cleanupAt, cache, metrics, svc, store, build, pure>>

\* the catch block of withRetry for the error raised to attempt call[s].attempt
Catch(s, error) ==
    LET lastError == handleNotionError(error)
        retryCount == call[s].retryCount + 1
    IN  IF LastAttempt(call[s].attempt) \/ NonRetryable(lastError)
        THEN /\ call' = [call EXCEPT ![s].pc = "failed",
                                     ![s].lastError = lastError,
                                     ![s].retryCount = retryCount,
                                     ![s].raised = error,
                                     ![s].timeoutAt = NoTimer]
             /\ metrics' = [metrics EXCEPT ![s] =
                               endMetrics(@, now, FALSE, lastError, retryCount)]
        ELSE /\ \E delay \in RetryDelays(lastError, call[s].attempt) :
                    call' = [call EXCEPT ![s].pc = "backoff",
                                         ![s].lastError = lastError,
                                         ![s].retryCount = retryCount,
                                         ![s].raised = error,
                                         ![s].timeoutAt = NoTimer,
                                         ![s].wake = now + delay]
             /\ UNCHANGED metrics

\* the sleep after a failed attempt ends: the next attempt enters the limiter
BackoffWake(s) ==
    /\ ~MicrotaskPending
    /\ call[s].pc = "backoff"
    /\ now >= call[s].wake
    /\ call' = [call EXCEPT ![s].pc = IF RateLimited THEN "rate" ELSE "released",
                            ![s].attempt = @ + 1,
                            ![s].wake = NoTimer]
    /\ enforceRateLimit(s)
    /\ UNCHANGED <<now, cacheEnabled, cleanupAt, cache, metrics, svc, flights, store, build, pure>>

\* ------------------------------------------------------------------------
\* The transport and the external store
\* ------------------------------------------------------------------------
\* the page pages.create makes of properties; the callers of the model
\* that give the required properties give those of PendingPage
PageOf(props) ==
    [(IF props.Complete THEN PendingPage ELSE IncompletePage)
        EXCEPT !.status = props.Status, !.reasoning = props.Reasoning,
               !.decisionDate = props.DecisionDate]

\* the page pages.update makes of page with properties
UpdatedPage(page, props) ==
    [(IF props.Complete /\ ~page.complete THEN PendingPage ELSE page)
        EXCEPT !.status = props.Status, !.reasoning = props.Reasoning,
               !.decisionDate = props.DecisionDate]

\* the ids the store has not given to a page yet
FreePageIds == {p \in NewPageIds : store[p] = NoPage}

\* the pages a query of databaseId returns: those of the spending-request
\* database, none for a database whose pages the model does not keep
PagesOf(databaseId) == IF databaseId \in DatabaseIds THEN store ELSE NoPages

\* the store serves the request of flight f: a read takes the pages as they
\* are now, updatePage writes its properties to a page that exists,
\* createPage adds a page under an id not given yet (the store creates at
\* most Cardinality(NewPageIds) pages)
StoreHandle(f) ==
    /\ ~MicrotaskPending
    /\ f \in flights
    /\ f.phase = "sent"
    /\ f.op \in {"getPage", "updatePage"} => store[f.arg] # NoPage
    /\ f.op = "createPage" => FreePageIds # {}
    /\ LET id == CHOOSE p \in FreePageIds : TRUE
           result ==
               CASE f.op = "getPage" -> Result("page", store[f.arg], NoPages)
                 [] f.op = "queryDatabase" -> Result("pages", NoPage, PagesOf(f.arg))
                 [] f.op = "getDatabaseSchema" -> Result("schema", NoPage, NoPages)
                 [] f.op = "createPage" -> CreatedResult(id)
                 [] OTHER -> Result("void", NoPage, NoPages)
       IN  /\ flights' = (flights \ {f}) \cup {[f EXCEPT !.phase = "replied", !.result = result]}
           /\ store' =
                 CASE f.op = "updatePage" ->
                        [store EXCEPT ![f.arg] = UpdatedPage(@, f.props)]
                   [] f.op = "createPage" -> [store EXCEPT ![id] = PageOf(f.props)]
                   [] OTHER -> store
    /\ UNCHANGED <<now, cacheEnabled, limiter, cleanupAt, cache, metrics, call, svc, build, pure>>

\* updatePage as if it cleared the whole cache
updatePageClearsCache(c, pageId) == <<>>

\* the rest of updatePage's operation after client.pages.update resolved
updatePage(c, pageId) == InvalidatePage(c, pageId)

\* the response of flight f arrives, as if withRetry cached the result of an
\* attempt it no longer awaits
DeliverOkCachingLate(f) ==
    /\ ~MicrotaskPending
    /\ f \in flights
    /\ f.phase = "replied"
    /\ flights' = flights \ {f}
    /\ LET s == f.slot
           key == CacheKeyOf(f.op, f.arg, f.filter)
           afterOperation == IF f.op = "updatePage" THEN updatePage(cache, f.arg) ELSE cache
       IN  /\ cache' = IF key # "" /\ f.result.kind # "void"
                        THEN setCache(cacheEnabled, afterOperation, key, f.result, now)
                        ELSE afterOperation
           /\ IF f.live
              THEN /\ metrics' = [metrics EXCEPT ![s] =
                                     endMetrics(@, now, TRUE, NoError, call[s].retryCount)]
                   /\ call' = [call EXCEPT ![s].pc = "done",
                                           ![s].result = f.result,
                                           ![s].timeoutAt = NoTimer]
              ELSE UNCHANGED <<metrics, call>>
    /\ UNCHANGED <<now, cacheEnabled, limiter, cleanupAt, svc, store, build, pure>>

\* the response of flight f arrives: the operation finishes and, when
\* withRetry still awaits this attempt, withRetry caches, ends the metrics
\* and returns
DeliverOk(f) ==
    /\ ~MicrotaskPending
    /\ f \in flights
    /\ f.phase = "replied"
    /\ flights' = flights \ {f}
    /\ LET s == f.slot
           afterOperation == IF f.op = "updatePage" THEN updatePage(cache, f.arg) ELSE cache
       IN  IF f.live
           THEN /\ cache' = IF call[s].key # "" /\ f.result.kind # "void"
                            THEN setCache(cacheEnabled, afterOperation, call[s].key, f.result, now)
                            ELSE afterOperation
                /\ metrics' = [metrics EXCEPT ![s] =
                                  endMetrics(@, now, TRUE, NoError, call[s].retryCount)]
                /\ call' = [call EXCEPT ![s].pc = "done",
                                        ![s].result = f.result,
                                        ![s].timeoutAt = NoTimer]
           ELSE /\ cache' = afterOperation
                /\ UNCHANGED <<metrics, call>>
    /\ UNCHANGED <<now, cacheEnabled, limiter, cleanupAt, svc, store, build, pure>>

\* the transport call of flight f is rejected with error
DeliverError(f, error) ==
    /\ ~MicrotaskPending
    /\ f \in flights
    /\ f.phase = "sent"
    /\ flights' = flights \ {f}
    /\ IF f.live
       THEN Catch(f.slot, error)
       ELSE UNCHANGED <<metrics, call>>
    /\ UNCHANGED <<now, cacheEnabled, limiter, cleanupAt, cache, svc, store, build, pure>>

\* the timeout of the attempt of slot s fires before the transport answered:
\* the race rejects, the transport call stays in flight
Timeout(s) ==
    /\ ~MicrotaskPending
    /\ call[s].pc = "flight"
    /\ now >= call[s].timeoutAt
    /\ flights' = {IF f.slot = s /\ f.live THEN [f EXCEPT !.live = FALSE] ELSE f : f \in flights}
    /\ Catch(s, TimeoutRejection)
    /\ UNCHANGED <<now, cacheEnabled, limiter, cleanupAt, cache, svc, store, build, pure>>

\* ------------------------------------------------------------------------
\* Public calls
\* ------------------------------------------------------------------------
ReadOps == {"getPage", "queryDatabase", "getDatabaseSchema"}
\* the public operations of NotionClient that go through withRetry
ClientOps == ReadOps \cup {"createPage", "updatePage"}
\* properties a caller creates a page with, and properties it updates one with
CreateProperties == {Props("Pending", "", NoDate, complete) : complete \in BOOLEAN}
UpdateProperties == {Props(decision, "fits the monthly budget", NoDate, FALSE) :
                        decision \in Decisions}

\* getPage(arg), queryDatabase(arg) or getDatabaseSchema(arg), called directly
ClientCall(s, op, arg, filter, props) ==
    /\ SlotFree(s)
    /\ op \in ClientOps
    /\ svc' = [svc EXCEPT ![s] = [IdleSvc EXCEPT !.kind = "client"]]
    /\ withRetry(s, op, arg, filter, props)
    /\ UNCHANGED <<now, cacheEnabled, cleanupAt, store, build, pure>>

\* UpdateDecisionSchema.parse succeeds
UpdateDecisionSchema(requestId, decision, reasoning) ==
    /\ Len(requestId) >= 1
    /\ decision \in {"Approved", "Denied"}
    /\ Len(reasoning) >= 10

\* parseSpendingRequestFromPage: NoPage stands for null
parseSpendingRequestFromPage(page) ==
    IF ~page.complete \/ page.status = "" THEN NoPage ELSE page

\* updateDecision up to its first suspension
updateDecision(s, requestId, decision, reasoning) ==
    /\ SlotFree(s)
    /\ IF ~UpdateDecisionSchema(requestId, decision, reasoning)
       THEN /\ svc' = [svc EXCEPT ![s] = [IdleSvc EXCEPT !.kind = "updateDecision",
                                              !.decision = decision,
                                              !.reasoning = reasoning,
                                              !.stage = "get",
                                              !.outcome = "VALIDATION_ERROR"]]
            /\ call' = [call EXCEPT ![s] = IdleCall]
            /\ metrics' = [metrics EXCEPT ![s] = NoMetrics]
            /\ Supersede(s)
            /\ UNCHANGED <<cache, limiter>>
       ELSE /\ svc' = [svc EXCEPT ![s] = [IdleSvc EXCEPT !.kind = "updateDecision",
                                              !.decision = decision,
                                              !.reasoning = reasoning,
                                              !.stage = "get",
                                              !.statusAtCall = store[requestId].status]]
            /\ withRetry(s, "getPage", requestId, NoFilter, NoProps)
    /\ UNCHANGED <<now, cacheEnabled, cleanupAt, store, build, pure>>

\* formatDate(date): date.toISOString().split('T')[0], the day of date, as
\* the date Notion reads it as, the start of that day
formatDate(date) == (date \div TicksPerDay) * TicksPerDay

\* updateDecision resumed with the page getPage returned: the status check
\* and the call of updatePage
UpdateDecisionContinue(s) ==
    /\ ~Launching
    /\ ContinuationPending(s)
    /\ LET currentRequest == parseSpendingRequestFromPage(call[s].result.page)
       IN  IF currentRequest = NoPage
           THEN /\ svc' = [svc EXCEPT ![s].outcome = "PARSE_ERROR"]
                /\ UNCHANGED <<cache, limiter, call, metrics, flights>>
           ELSE IF currentRequest.status # "Pending"
           THEN /\ svc' = [svc EXCEPT ![s].outcome = "INVALID_STATUS"]
                /\ UNCHANGED <<cache, limiter, call, metrics, flights>>
           ELSE /\ svc' = [svc EXCEPT ![s].stage = "update"]
                /\ withRetry(s, "updatePage", call[s].arg, NoFilter,
                             Props(svc[s].decision, svc[s].reasoning, formatDate(now), FALSE))
    /\ UNCHANGED <<now, cacheEnabled, cleanupAt, store, build, pure>>

\* ------------------------------------------------------------------------
\* Similarity of two spending requests (DecisionContextService)
\* ------------------------------------------------------------------------
Abs(x) == IF x < 0 THEN 0 - x ELSE x

\* dayjs(d1).diff(dayjs(d2), 'days'): the difference in days, truncated
\* towards zero
DiffDays(d1, d2) ==
    IF d1 < d2 THEN 0 - ((d2 - d1) \div TicksPerDay) ELSE (d1 - d2) \div TicksPerDay

\* urgencyMap[urgency] || 2
UrgencyRank(urgency) ==
    CASE urgency = "Low" -> 1
      [] urgency = "Medium" -> 2
      [] urgency = "High" -> 3
      [] urgency = "Critical" -> 4
      [] OTHER -> 2

\* ------------------------------------------------------------------------
\* JavaScript numbers (IEEE 754 doubles)
\* ------------------------------------------------------------------------
\* A natural number of any size is the sequence of its digits in base
\* Base, lowest first, with no leading zero (<<>> is 0).
Base == Pow2(14)

RECURSIVE BigNat(_)
BigNat(n) == IF n = 0 THEN <<>> ELSE <<n % Base>> \o BigNat(n \div Base)

RECURSIVE BigTrim(_)
BigTrim(x) ==
    IF x = <<>> \/ x[Len(x)] # 0 THEN x ELSE BigTrim(SubSeq(x, 1, Len(x) - 1))

BigDigit(x, i) == IF i <= Len(x) THEN x[i] ELSE 0

RECURSIVE BigAddFrom(_, _, _, _)
BigAddFrom(x, y, i, carry) ==
    IF i > Len(x) /\ i > Len(y)
    THEN (IF carry = 0 THEN <<>> ELSE <<carry>>)
    ELSE LET d == BigDigit(x, i) + BigDigit(y, i) + carry
         IN  <<d % Base>> \o BigAddFrom(x, y, i + 1, d \div Base)

BigAdd(x, y) == BigAddFrom(x, y, 1, 0)

\* x - y for x >= y
RECURSIVE BigSubFrom(_, _, _, _)
BigSubFrom(x, y, i, borrow) ==
    IF i > Len(x) THEN <<>>
    ELSE LET d == x[i] - BigDigit(y, i) - borrow
         IN  <<IF d < 0 THEN d + Base ELSE d>>
             \o BigSubFrom(x, y, i + 1, IF d < 0 THEN 1 ELSE 0)

BigSub(x, y) == BigTrim(BigSubFrom(x, y, 1, 0))

RECURSIVE BigLessFrom(_, _, _)
BigLessFrom(x, y, i) ==
    IF i = 0 THEN FALSE
    ELSE IF x[i] # y[i] THEN x[i] < y[i]
    ELSE BigLessFrom(x, y, i - 1)

BigLess(x, y) ==
    IF Len(x) # Len(y) THEN Len(x) < Len(y) ELSE BigLessFrom(x, y, Len(x))

\* x * d + carry for a digit d
RECURSIVE BigMulDigit(_, _, _)
BigMulDigit(x, d, carry) ==
    IF x = <<>> THEN (IF carry = 0 THEN <<>> ELSE <<carry>>)
    ELSE LET p == Head(x) * d + carry
         IN  <<p % Base>> \o BigMulDigit(Tail(x), d, p \div Base)

\* x * Base^n
BigShiftDigits(x, n) == IF x = <<>> THEN <<>> ELSE [i \in 1..n |-> 0] \o x

RECURSIVE BigMul(_, _)
BigMul(x, y) ==
    IF y = <<>> THEN <<>>
    ELSE BigAdd(BigTrim(BigMulDigit(x, Head(y), 0)), BigShiftDigits(BigMul(x, Tail(y)), 1))

\* x * 2^k
BigShiftLeft(x, k) ==
    BigShiftDigits(BigTrim(BigMulDigit(x, Pow2(k % 14), 0)), k \div 14)

\* the quotient of x by d (0 < d, d * Base within the integers), digit by
\* digit from the highest; rem is the remainder so far
RECURSIVE BigDivFrom(_, _, _, _)
BigDivFrom(x, d, i, rem) ==
    IF i = 0 THEN <<>>
    ELSE LET n == rem * Base + x[i]
         IN  BigDivFrom(x, d, i - 1, n % d) \o <<n \div d>>

BigDiv(x, d) == BigTrim(BigDivFrom(x, d, Len(x), 0))

\* the remainder of x by d
RECURSIVE BigModFrom(_, _, _, _)
BigModFrom(x, d, i, rem) ==
    IF i = 0 THEN rem ELSE BigModFrom(x, d, i - 1, (rem * Base + x[i]) % d)

BigMod(x, d) == BigModFrom(x, d, Len(x), 0)

\* floor(x / 2^k)
BigShiftRight(x, k) ==
    IF k \div 14 >= Len(x) THEN <<>>
    ELSE BigDiv(SubSeq(x, k \div 14 + 1, Len(x)), Pow2(k % 14))

RECURSIVE BitLength(_)
BitLength(n) == IF n = 0 THEN 0 ELSE 1 + BitLength(n \div 2)

BigBitLength(x) == IF x = <<>> THEN 0 ELSE 14 * (Len(x) - 1) + BitLength(x[Len(x)])

\* the bits of the significand of a double
SignificandBits == 53

\* A number that is not negative: significand * 2^exponent, the significand
\* of SignificandBits bits (0 has significand 0 and exponent 0); nan: NaN.
Double(significand, exponent) ==
    [significand |-> significand, exponent |-> exponent, nan |-> FALSE]

NaN == [significand |-> <<>>, exponent |-> 0, nan |-> TRUE]

\* the double nearest to n * 2^exponent, ties to the even significand
RoundToDouble(n, exponent) ==
    LET length == BigBitLength(n)
        shift == length - SignificandBits
    IN  IF n = <<>> THEN Double(<<>>, 0)
        ELSE IF shift <= 0 THEN Double(BigShiftLeft(n, 0 - shift), exponent + shift)
        ELSE LET q == BigShiftRight(n, shift)
                 r == BigSub(n, BigShiftLeft(q, shift))
                 half == BigShiftLeft(<<1>>, shift - 1)
                 up == BigLess(half, r) \/ (r = half /\ q[1] % 2 = 1)
                 s == IF up THEN BigAdd(q, <<1>>) ELSE q
             IN  IF BigBitLength(s) > SignificandBits
                 THEN Double(BigShiftRight(s, 1), exponent + shift + 1)
                 ELSE Double(s, exponent + shift)

\* x < y (false when either is NaN)
DoubleLess(x, y) ==
    /\ ~x.nan /\ ~y.nan
    /\ y.significand # <<>>
    /\ \/ x.significand = <<>>
       \/ x.exponent < y.exponent
       \/ x.exponent = y.exponent /\ BigLess(x.significand, y.significand)

\* x + y
DoubleAdd(x, y) ==
    IF x.nan \/ y.nan THEN NaN
    ELSE LET e == Min(x.exponent, y.exponent)
         IN  RoundToDouble(BigAdd(BigShiftLeft(x.significand, x.exponent - e),
                                  BigShiftLeft(y.significand, y.exponent - e)), e)

\* x - y for x >= y
DoubleSub(x, y) ==
    IF x.nan \/ y.nan THEN NaN
    ELSE LET e == Min(x.exponent, y.exponent)
         IN  RoundToDouble(BigSub(BigShiftLeft(x.significand, x.exponent - e),
                                  BigShiftLeft(y.significand, y.exponent - e)), e)

\* x * y
DoubleMul(x, y) ==
    IF x.nan \/ y.nan THEN NaN
    ELSE RoundToDouble(BigMul(x.significand, y.significand), x.exponent + y.exponent)

\* n / d for integers n >= 0 and d > 0, which is also what the decimal
\* literal n/d denotes (0.3 is DoubleDiv(3, 10)): the quotient is taken to
\* 72 binary places and a last bit tells whether anything is left
DoubleDiv(n, d) ==
    LET x == BigShiftLeft(BigNat(n), 72)
        q == BigDiv(x, d)
    IN  RoundToDouble(BigAdd(BigShiftLeft(q, 1), IF BigMod(x, d) = 0 THEN <<>> ELSE <<1>>),
                      0 - 73)

\* twice the averageAmount, as if the second request did not count
averageAmountOfFirstTimes2(request1, request2) == request1.amount + request1.amount

\* twice the averageAmount of calculateSimilarityScore
averageAmountTimes2(request1, request2) == request1.amount + request2.amount

Zero == Double(<<>>, 0)
One == DoubleDiv(1, 1)

\* the literals 0.4, 0.3, 0.2 and 0.1 of calculateSimilarityScore
CategoryWeight == DoubleDiv(4, 10)
AmountWeight == DoubleDiv(3, 10)
UrgencyWeight == DoubleDiv(2, 10)
TimeWeight == DoubleDiv(1, 10)

\* Math.max(0, 1 - x) for x >= 0
OneMinus(x) ==
    IF x.nan THEN NaN
    ELSE IF DoubleLess(x, One) THEN DoubleSub(One, x)
    ELSE Zero

\* calculateSimilarityScore, in the doubles of the code. The average of two
\* whole amounts is exact, so amountDiff / averageAmount is the double
\* nearest to 2 * amountDiff / s, s twice the average. An average of 0 makes
\* the division yield NaN (0 / 0, and so is the score) or Infinity (the
\* amount term is then 0); a negative average makes the amount term
\* 1 + amountDiff / |averageAmount|.
calculateSimilarityScore(request1, request2) ==
    IF request1.category # request2.category THEN Zero
    ELSE
        LET amountDiff == Abs(request1.amount - request2.amount)
            s == averageAmountTimes2(request1, request2)
            amountSimilarity ==
                IF s = 0 THEN (IF amountDiff = 0 THEN NaN ELSE Zero)
                ELSE IF s < 0 THEN DoubleAdd(One, DoubleDiv(2 * amountDiff, 0 - s))
                ELSE OneMinus(DoubleDiv(2 * amountDiff, s))
            urgencyDiff == Abs(UrgencyRank(request1.urgency) - UrgencyRank(request2.urgency))
            urgencySimilarity == OneMinus(DoubleDiv(urgencyDiff, 3))
            daysDiff == Abs(DiffDays(request1.requestDate, request2.requestDate))
            timeSimilarity == OneMinus(DoubleDiv(daysDiff, 90))
            \* score = 0; score += 0.4; score += ... in the order of the code
            score == DoubleAdd(DoubleAdd(DoubleAdd(CategoryWeight,
                                                   DoubleMul(amountSimilarity, AmountWeight)),
                                         DoubleMul(urgencySimilarity, UrgencyWeight)),
                               DoubleMul(timeSimilarity, TimeWeight))
        \* Math.min(score, 1)
        IN  IF DoubleLess(One, score) THEN One ELSE score

\* ------------------------------------------------------------------------
\* Comparable past requests (DecisionContextService.getRelevantComparisons)
\* ------------------------------------------------------------------------
\* the first filter, as if the request itself could be compared
ComparableIgnoringId(request, r) ==
    /\ r.category = request.category
    /\ r.status # "Pending"

\* the first filter: another request of the same category, already decided
Comparable(request, r) ==
    /\ r.id # request.id
    /\ r.category = request.category
    /\ r.status # "Pending"

\* the similarity the filter of getRelevantComparisons compares with: 0.3
SimilarityThreshold == DoubleDiv(3, 10)

\* items.sort((a, b) => b.similarity - a.similarity): descending and stable
RECURSIVE SortBySimilarity(_)
SortBySimilarity(items) ==
    IF items = <<>> THEN <<>>
    ELSE LET i == CHOOSE i \in 1..Len(items) :
                    /\ \A j \in 1..Len(items) :
                            ~DoubleLess(items[i].similarity, items[j].similarity)
                    /\ \A j \in 1..(i - 1) :
                            DoubleLess(items[j].similarity, items[i].similarity)
         IN  <<items[i]>> \o SortBySimilarity(SubSeq(items, 1, i - 1)
                                                \o SubSeq(items, i + 1, Len(items)))

\* .map(r => ({request: r, similarity: this.calculateSimilarityScore(request, r)}))
Scored(request, decided) ==
    [i \in 1..Len(decided) |->
        [request |-> decided[i],
         similarity |-> calculateSimilarityScore(request, decided[i])]]

\* .slice(0, maxResults)
Slice(items, maxResults) == SubSeq(items, 1, Min(maxResults, Len(items)))

\* .map(item => item.request)
RequestsOf(items) == [i \in 1..Len(items) |-> items[i].request]

\* GetRelevantComparisonsSchema.parse succeeds: request is a typed
\* SpendingRequest, dayRange is left to its default
GetRelevantComparisonsSchema(options) ==
    /\ options.maxResults >= 1
    /\ options.maxResults <= 50

\* the order in which the store answers the pages of a query
StoreOrder == <<"p1", "p12", "p2">>

\* the SpendingRequest parseSpendingRequestFromPage makes of the page id
SpendingRequest(id, page) ==
    [id |-> id, category |-> page.category, status |-> page.status, amount |-> page.amount,
     urgency |-> page.urgency, requestDate |-> page.requestDate]

\* what getRecentSpending returns for the pages its query answered:
\* pages.map(parseSpendingRequestFromPage).filter(request => request !== null)
SpendingRequestsOf(pages) ==
    LET answered == SelectSeq(StoreOrder,
                              LAMBDA id : /\ pages[id] # NoPage
                                          /\ parseSpendingRequestFromPage(pages[id]) # NoPage)
    IN  [i \in 1..Len(answered) |-> SpendingRequest(answered[i], pages[answered[i]])]

\* getRelevantComparisons once getRecentSpending has answered recentSpending
getRelevantComparisons(request, recentSpending, maxResults) ==
    LET decided == SelectSeq(recentSpending, LAMBDA r : Comparable(request, r))
        similar == SelectSeq(Scored(request, decided),
                             LAMBDA item : DoubleLess(SimilarityThreshold, item.similarity))
    IN  RequestsOf(Slice(SortBySimilarity(similar), maxResults))

\* ------------------------------------------------------------------------
\* Context builders (FinancialDataService, DecisionContextService,
\* SpendingRequestService): each fetch is a queryDatabase call of its own,
\* started by the synchronous code of the build and awaited by it
\* ------------------------------------------------------------------------
\* a promise's settlement: a value (what) or a thrown service error (code)
Resolved(what) == [threw |-> FALSE, code |-> "", what |-> what]
Thrown(code) == [threw |-> TRUE, code |-> code, what |-> ""]

\* what getRelevantComparisons returns
Returned(comparisons) ==
    [threw |-> FALSE, code |-> "", what |-> "comparisons", comparisons |-> comparisons]

\* promise.catch(() => fallback)
CatchWith(settled, fallback) == IF settled.threw THEN Resolved(fallback) ELSE settled

\* the databases of FinancialDataService (config.goalsDatabase, debtsDatabase,
\* accountsDatabase); the model does not keep their pages
GoalsDatabase == "goals"
DebtsDatabase == "debts"
AccountsDatabase == "accounts"
SpendingDatabase == "db"

\* the fetches of the builds: funds is the getAccountBalances call of
\* calculateAvailableFunds, spending the getRecentSpending(30) call of
\* buildSpendingContext, comparisons the getRecentSpending(90) call of
\* getRelevantComparisons, category the getSpendingByCategory call of
\* getCategorySpendingForPeriod
FetchDatabase(name) ==
    CASE name = "goals" -> GoalsDatabase
      [] name = "debts" -> DebtsDatabase
      [] name \in {"accounts", "funds"} -> AccountsDatabase
      [] OTHER -> SpendingDatabase

\* the filter (and sorts) each fetch passes to queryDatabase; dates are
\* formatted as days, so a fetch passes the same filter all day
FetchFilter(name) ==
    CASE name = "goals" -> "Status=active"
      [] name = "debts" -> "Status=active,Remaining Amount>0"
      [] name \in {"accounts", "funds"} -> "Status=active"
      [] name = "spending" -> "Request Date within 30 days"
      [] name = "comparisons" -> "Request Date within 90 days"
      [] OTHER -> "Request Date in the month before last"

\* the service functions, given whether their queryDatabase call returned
getActiveGoals(ok) == IF ok THEN Resolved("fetched") ELSE Thrown("FETCH_GOALS_ERROR")
getAllDebts(ok) == IF ok THEN Resolved("fetched") ELSE Thrown("FETCH_DEBTS_ERROR")
getAccountBalances(ok) == IF ok THEN Resolved("fetched") ELSE Thrown("FETCH_ACCOUNTS_ERROR")
getRecentSpending(ok) == IF ok THEN Resolved("fetched") ELSE Thrown("FETCH_RECENT_ERROR")
getSpendingByCategory(ok) == IF ok THEN Resolved("fetched") ELSE Thrown("FETCH_CATEGORY_ERROR")

\* getMonthlyBudgetStatus(): MonthlyBudgetSchema wants a positive budget
getMonthlyBudgetStatus(defaultMonthlyBudget) ==
    LET budget == IF defaultMonthlyBudget # 0 THEN defaultMonthlyBudget ELSE 3000
    IN  IF budget > 0 THEN Resolved("computed") ELSE Thrown("VALIDATION_ERROR")

\* calculateAvailableFunds: getAccountBalances awaited inside its try block
calculateAvailableFunds(accounts) ==
    IF accounts.threw THEN Thrown("CALCULATE_FUNDS_ERROR") ELSE Resolved("computed")

\* buildSpendingContext rethrows the SpendingRequestServiceError of
\* getRecentSpending as it is
buildSpendingContext(recentSpending) ==
    IF recentSpending.threw THEN recentSpending ELSE Resolved("fetched")

\* getRelevantComparisons wraps every error of getRecentSpending
getRelevantComparisonsSettled(recentSpending) ==
    IF recentSpending.threw THEN Thrown("GET_COMPARISONS_ERROR") ELSE Resolved("fetched")

\* getCategorySpendingForPeriod: a failure counts as 0
getCategorySpendingForPeriod(patterns) == CatchWith(patterns, "zero")

\* what the service function of a fetch settles as
FetchSettlement(name, ok) ==
    CASE name = "goals" -> getActiveGoals(ok)
      [] name = "debts" -> getAllDebts(ok)
      [] name = "accounts" -> getAccountBalances(ok)
      [] name = "funds" -> calculateAvailableFunds(getAccountBalances(ok))
      [] name = "spending" -> buildSpendingContext(getRecentSpending(ok))
      [] name = "comparisons" -> getRelevantComparisonsSettled(getRecentSpending(ok))
      [] OTHER -> getSpendingByCategory(ok)

\* the lowest unoccupied slot
FreeSlot == CHOOSE s \in Slots : Unoccupied(s) /\ \A t \in 1..(s - 1) : ~Unoccupied(t)

\* the fetch of slot s taken in by the build: its service function has
\* returned ("OK") or thrown (its code)
TakenIn(s) ==
    [svc EXCEPT ![s].outcome = IF call[s].pc = "done" THEN "OK"
                               ELSE FetchSettlement(svc[s].stage, FALSE).code]

\* a service function called for fetch name, up to its await of
\* queryDatabase; sv is what the slots serve when it is called
StartFetch(sv, name) ==
    /\ svc' = [sv EXCEPT ![FreeSlot] = [IdleSvc EXCEPT !.kind = "fetch", !.stage = name]]
    /\ withRetry(FreeSlot, "queryDatabase", FetchDatabase(name), FetchFilter(name), NoProps)

\* the build goes on in state b: it starts the first of the fetches names
\* and has the rest to start in the same turn
StartFetches(sv, names, b) ==
    /\ StartFetch(sv, Head(names))
    /\ build' = [b EXCEPT !.toLaunch = Tail(names)]

\* the build is in state b and settled as out (NoOutput: not yet); the fetch
\* of slot s has been taken in and nothing is started
TakeIn(s, b, out) ==
    /\ svc' = TakenIn(s)
    /\ build' = b
    /\ output' = out
    /\ UNCHANGED <<cache, limiter, call, metrics, flights>>

\* buildFinancialContext up to its await of Promise.all: with no fetch
\* included it sends nothing before it returns to the event loop
BuildFinancialContext(options) ==
    LET names == SelectSeq(<<"goals", "debts", "accounts">>,
                           LAMBDA n : CASE n = "goals" -> options.includeGoals
                                        [] n = "debts" -> options.includeDebts
                                        [] OTHER -> options.includeAccounts)
        parts == [NoParts EXCEPT !.goals = IF options.includeGoals THEN "" ELSE "empty",
                                 !.debts = IF options.includeDebts THEN "" ELSE "empty",
                                 !.accounts = IF options.includeAccounts THEN "" ELSE "empty"]
        b == [build EXCEPT !.fn = "buildFinancialContext", !.parts = parts]
    IN  /\ ~Launching
        /\ build.fn = "none"
        /\ Cardinality({s \in Slots : Unoccupied(s)}) >= Len(names) + 1
        /\ input' = [fn |-> "buildFinancialContext", options |-> options]
        /\ IF names = <<>>
           THEN /\ build' = [b EXCEPT !.stage = "gather"]
                /\ UNCHANGED <<cache, limiter, call, metrics, svc, flights>>
           ELSE StartFetches(svc, names, [b EXCEPT !.stage = "gather"])
        /\ UNCHANGED <<now, cacheEnabled, cleanupAt, store, output>>

\* buildFinancialContext resumes from await Promise.all of promises that
\* were all resolved when it was called, and calls calculateAvailableFunds
FinancialContextContinues ==
    /\ ~Launching
    /\ PromiseAllResolved
    /\ StartFetches(svc, <<"funds">>, [build EXCEPT !.stage = "funds"])
    /\ UNCHANGED <<now, cacheEnabled, cleanupAt, store, input, output>>

\* getRelevantComparisons(request, options) up to its await of
\* getRecentSpending, whose query it starts; a ZodError is thrown as
\* VALIDATION_ERROR before anything is sent
GetRelevantComparisons(request, options) ==
    LET b == [build EXCEPT !.fn = "getRelevantComparisons", !.stage = "comparisons"]
    IN  /\ ~Launching
        /\ build.fn = "none"
        /\ \E s \in Slots : Unoccupied(s)
        /\ input' = [fn |-> "getRelevantComparisons", request |-> request, options |-> options]
        /\ IF ~GetRelevantComparisonsSchema(options)
           THEN /\ build' = b
                /\ output' = Thrown("VALIDATION_ERROR")
                /\ UNCHANGED <<cache, limiter, call, metrics, svc, flights>>
           ELSE /\ StartFetches(svc, <<"comparisons">>, b)
                /\ UNCHANGED output
        /\ UNCHANGED <<now, cacheEnabled, cleanupAt, store>>

\* getRelevantComparisons resumed by the query of slot s: getRecentSpending
\* returns the requests parsed from the pages the query answered, or throws
RelevantComparisonsResume(s, ok, b) ==
    TakeIn(s, b,
           IF ok
           THEN Returned(getRelevantComparisons(
                             input.request, SpendingRequestsOf(call[s].result.pages),
                             input.options.maxResults))
           ELSE getRelevantComparisonsSettled(getRecentSpending(FALSE)))

\* buildDecisionContext up to its await of buildSpendingContext
BuildDecisionContext(requestId, options) ==
    LET b == [build EXCEPT !.fn = "buildDecisionContext", !.stage = "spending"]
    IN  /\ ~Launching
        /\ build.fn = "none"
        /\ Cardinality({s \in Slots : Unoccupied(s)}) >= 5
        /\ input' = [fn |-> "buildDecisionContext", requestId |-> requestId, options |-> options]
        /\ IF Len(requestId) < 1
           THEN /\ build' = b
                /\ output' = Thrown("VALIDATION_ERROR")
                /\ UNCHANGED <<cache, limiter, call, metrics, svc, flights>>
           ELSE /\ StartFetches(svc, <<"spending">>, b)
                /\ UNCHANGED output
        /\ UNCHANGED <<now, cacheEnabled, cleanupAt, store>>

\* the synchronous code of the build calls the next service function
LaunchFetch ==
    /\ Launching
    /\ StartFetches(svc, build.toLaunch, build)
    /\ UNCHANGED <<now, cacheEnabled, cleanupAt, store, input, output>>

\* buildFinancialContext resumed by the fetch of slot s
FinancialContextResumes(s, name, ok, b) ==
    IF name = "funds"
    THEN LET availableFunds == FetchSettlement("funds", ok)
             parts == [b.parts EXCEPT !.availableFunds = IF ok THEN "computed" ELSE ""]
         IN  TakeIn(s, [b EXCEPT !.parts = parts],
                    IF availableFunds.threw
                    THEN Thrown("BUILD_CONTEXT_ERROR")
                    ELSE Resolved([goals |-> parts.goals, debts |-> parts.debts,
                                   accounts |-> parts.accounts,
                                   availableFunds |-> parts.availableFunds]))
    ELSE LET parts == [b.parts EXCEPT ![name] = CatchWith(FetchSettlement(name, ok), "empty").what]
             b2 == [b EXCEPT !.parts = parts]
         IN  IF \A n \in {"goals", "debts", "accounts"} : parts[n] # ""
             THEN /\ StartFetches(TakenIn(s), <<"funds">>, [b2 EXCEPT !.stage = "funds"])
                  /\ UNCHANGED output
             ELSE TakeIn(s, b2, output)

\* buildDecisionContext resumed by the fetch of slot s
DecisionContextResumes(s, name, ok, b) ==
    CASE name = "spending" ->
            LET spendingContext == FetchSettlement("spending", ok)
                request == IF ok THEN parseSpendingRequestFromPage(call[s].result.pages[input.requestId])
                           ELSE NoPage
                budgetStatus == getMonthlyBudgetStatus(build.defaultMonthlyBudget)
                parts == [b.parts EXCEPT
                             !.budget = CatchWith(budgetStatus, "default").what,
                             !.recentSimilar = IF input.options.includeComparisons THEN "" ELSE "empty"]
                b2 == [b EXCEPT !.parts = parts, !.stage = "gather",
                                !.failed = IF budgetStatus.threw THEN @ \cup {"budget"} ELSE @]
            IN  IF spendingContext.threw THEN TakeIn(s, b, Thrown("BUILD_CONTEXT_ERROR"))
                ELSE IF request = NoPage THEN TakeIn(s, b, Thrown("REQUEST_NOT_FOUND"))
                ELSE /\ StartFetches(TakenIn(s), IF input.options.includeComparisons
                                        THEN <<"goals", "debts", "comparisons">>
                                        ELSE <<"goals", "debts">>, b2)
                     /\ UNCHANGED output
      [] name = "category" ->
            TakeIn(s, b, IF output # NoOutput THEN output
                         ELSE Resolved([budget |-> b.parts.budget, goals |-> b.parts.goals,
                                        debts |-> b.parts.debts,
                                        recentSimilar |-> b.parts.recentSimilar]))
      [] OTHER ->
            LET settled == FetchSettlement(name, ok)
                part == IF name = "comparisons" THEN "recentSimilar" ELSE name
                parts == [b.parts EXCEPT ![part] = IF name = "comparisons"
                                                   THEN (IF ok THEN "fetched" ELSE "")
                                                   ELSE CatchWith(settled, "empty").what]
                b2 == [b EXCEPT !.parts = parts]
            IN  IF output # NoOutput THEN TakeIn(s, b2, output)
                ELSE IF name = "comparisons" /\ settled.threw THEN TakeIn(s, b2, settled)
                ELSE IF \A n \in {"goals", "debts", "recentSimilar"} : parts[n] # ""
                THEN /\ StartFetches(TakenIn(s), <<"category">>, [b2 EXCEPT !.stage = "category"])
                     /\ UNCHANGED output
                ELSE TakeIn(s, b2, output)

\* the query of the fetch of slot s has settled: its service function
\* returns or throws, and the build awaiting it goes on
FetchSettles(s) ==
    /\ ~Launching
    /\ FetchSettled(s)
    /\ LET name == svc[s].stage
           ok == call[s].pc = "done"
           b == [build EXCEPT !.failed = IF ok THEN @ ELSE @ \cup {name}]
       IN  CASE build.fn = "buildFinancialContext" -> FinancialContextResumes(s, name, ok, b)
             [] build.fn = "getRelevantComparisons" -> RelevantComparisonsResume(s, ok, b)
             [] OTHER -> DecisionContextResumes(s, name, ok, b)
    /\ UNCHANGED <<now, cacheEnabled, cleanupAt, store, input>>

\* ------------------------------------------------------------------------
\* Cache maintenance and the clock
\* ------------------------------------------------------------------------
\* the callback of the cleanup interval
CleanupTimer ==
    /\ ~MicrotaskPending
    /\ cleanupAt # NoTimer /\ now >= cleanupAt
    /\ cache' = cleanupCache(cache, now)
    /\ cleanupAt' = cleanupAt + CleanupInterval
    /\ UNCHANGED <<now, cacheEnabled, limiter, metrics, call, svc, flights, store, build, pure>>

\* clearCache(): a caller can call it in the turn of another public call
clearCache ==
    /\ ~Launching
    /\ cache # <<>>
    /\ cache' = <<>>
    /\ UNCHANGED <<now, cacheEnabled, limiter, cleanupAt, metrics, call, svc, flights, store, build, pure>>

\* a timer whose time has come runs before the clock moves on
TimerDue ==
    \/ queueWake # NoTimer /\ queueWake <= now
    \/ cleanupAt # NoTimer /\ cleanupAt <= now
    \/ \E s \in Slots : \/ call[s].pc = "backoff" /\ call[s].wake <= now
                        \/ call[s].pc = "flight" /\ call[s].timeoutAt <= now

\* the clock moves on, up to horizon
TickUntil(horizon) ==
    /\ ~MicrotaskPending
    /\ ~TimerDue
    /\ now < horizon
    /\ now' = now + 1
    /\ UNCHANGED <<cacheEnabled, limiter, cleanupAt, cache, metrics, call, svc, flights, store, build, pure>>

Tick == TickUntil(MaxTime)

\* ------------------------------------------------------------------------
\* Specification: every public call, every transport outcome
\* ------------------------------------------------------------------------
Next ==
    \/ \E s \in Slots, op \in ReadOps :
          \E arg \in (IF op = "getPage" THEN AllPageIds ELSE DatabaseIds) :
              ClientCall(s, op, arg, NoFilter, NoProps)
    \/ \E s \in Slots, databaseId \in DatabaseIds, properties \in CreateProperties :
          ClientCall(s, "createPage", databaseId, NoFilter, properties)
    \/ \E s \in Slots, pageId \in AllPageIds, properties \in UpdateProperties :
          ClientCall(s, "updatePage", pageId, NoFilter, properties)
    \/ \E s \in Slots, requestId \in PageIds, decision \in Decisions \cup {"Pending"},
          reasoning \in Reasonings : updateDecision(s, requestId, decision, reasoning)
    \/ \E s \in Slots : UpdateDecisionContinue(s)
    \/ \E options \in [includeGoals : BOOLEAN, includeDebts : BOOLEAN, includeAccounts : BOOLEAN] :
          BuildFinancialContext(options)
    \/ \E requestId \in AllPageIds \cup {""}, options \in [includeComparisons : BOOLEAN] :
          BuildDecisionContext(requestId, options)
    \/ \E id \in AllPageIds, options \in [maxResults : {0, 1}] :
          GetRelevantComparisons(SpendingRequest(id, PendingPage), options)
    \/ LaunchFetch
    \/ FinancialContextContinues
    \/ \E s \in Slots : FetchSettles(s)
    \/ \E s \in Slots : Send(s)
    \/ \E f \in flights : StoreHandle(f)
    \/ \E f \in flights : DeliverOk(f)
    \/ \E f \in flights, error \in TransportErrors : DeliverError(f, error)
    \/ \E s \in Slots : Timeout(s)
    \/ \E s \in Slots : BackoffWake(s)
    \/ ProcessQueueWake
    \/ CleanupTimer
    \/ clearCache
    \/ Tick

Spec == Init /\ [][Next]_vars

\* ------------------------------------------------------------------------
\* Specification of the retry loop, caching off: slot 1 calls getPage against
\* a transport that can raise every error, answer late or not at all; slot 2
\* is other traffic, whose transport answers or stays silent
\* ------------------------------------------------------------------------
AllPending == [p \in AllPageIds |-> IF p \in PageIds THEN PendingPage ELSE NoPage]

InitRetry == Init /\ ~cacheEnabled /\ store = AllPending

NextRetry ==
    \/ \E s \in Callers : ClientCall(s, "getPage", "p1", NoFilter, NoProps)
    \/ \E s \in Slots : Send(s)
    \/ \E f \in flights : StoreHandle(f)
    \/ \E f \in flights : DeliverOk(f)
    \/ \E f \in {g \in flights : g.slot = 1}, error \in TransportErrors : DeliverError(f, error)
    \/ \E s \in Slots : Timeout(s)
    \/ \E s \in Slots : BackoffWake(s)
    \/ ProcessQueueWake
    \/ Tick

SpecRetry == InitRetry /\ [][NextRetry]_vars

\* ------------------------------------------------------------------------
\* Claims about the retry loop (checked under SpecRetry)
\* ------------------------------------------------------------------------
\* the result getPage("p1") returns when the transport answers
PageResult == Result("page", PendingPage, NoPages)

\* C1: a call that fails on each of its first MaxRetries attempts and
\* succeeds on the next one returns the transport's result, and its metrics
\* record ends with success = true and retryCount = MaxRetries.
C1_SuccessAfterMaxRetries ==
    \A s \in Slots :
        (call[s].pc = "done" /\ ~call[s].fromCache /\ call[s].attempt = MaxRetries)
        => /\ call[s].result = PageResult
           /\ metrics[s].success
           /\ metrics[s].error = NoError
           /\ metrics[s].retryCount = MaxRetries
           /\ metrics[s].endTime # NoTime

C1_Witness ==
    \E s \in Slots :
        /\ call[s].pc = "done"
        /\ call[s].attempt = MaxRetries
        /\ call[s].sent = MaxRetries + 1
        /\ metrics[s].retryCount = MaxRetries
        /\ metrics[s].success

\* C2: the underlying call is invoked at most MaxRetries + 1 times; after the
\* failure of attempt MaxRetries the call throws the classified error of that
\* attempt without sleeping and without another attempt.
C2_AtMostMaxRetriesPlusOne ==
    \A s \in Slots :
        /\ call[s].sent <= MaxRetries + 1
        /\ call[s].attempt <= MaxRetries
        /\ call[s].pc = "backoff" => call[s].attempt < MaxRetries
        /\ (call[s].sent = MaxRetries + 1 /\ call[s].pc \notin {"flight", "done"})
           => /\ call[s].pc = "failed"
              /\ call[s].attempt = MaxRetries
              /\ call[s].lastError = handleNotionError(call[s].raised)
              /\ metrics[s].error = call[s].lastError
              /\ ~metrics[s].success

C2_Witness ==
    \E s \in Slots :
        /\ call[s].pc = "failed"
        /\ call[s].attempt = MaxRetries
        /\ call[s].sent = MaxRetries + 1
        /\ ~NonRetryable(call[s].lastError)

\* C3: an attempt that fails with an authentication, permission or not-found
\* error is the last one: the call throws that error at once, with no sleep;
\* such a failure on the first attempt means exactly one transport call.
C3_NonRetryableStops ==
    \A s \in Slots :
        call[s].lastError.name \in {"NotionAuthError", "NotionPermissionError", "NotionNotFoundError"}
        => /\ call[s].pc = "failed"
           /\ call[s].wake = NoTimer
           /\ call[s].sent = call[s].attempt + 1
           /\ metrics[s].error = call[s].lastError
           /\ metrics[s].endTime # NoTime
           /\ call[s].attempt = 0 => call[s].sent = 1

C3_Witness ==
    \E s \in Slots :
        /\ call[s].pc = "failed"
        /\ call[s].lastError = NotionNotFoundError
        /\ call[s].attempt = 0
        /\ call[s].sent = 1
        /\ MaxRetries > 0

\* C4: authentication, permission, not-found and validation errors reported
\* by the store are never retried; every other error is retried until
\* attempt MaxRetries.
NonRetryableCodes == {"Unauthorized", "Forbidden", "ObjectNotFound", "validation_error"}

C4_ClassificationAsClaimed ==
    \A s \in Slots :
        call[s].raised # NoRaw
        => IF call[s].raised.code \in NonRetryableCodes
           THEN call[s].pc = "failed"
           ELSE call[s].pc = "failed" => call[s].attempt = MaxRetries

\* ------------------------------------------------------------------------
\* Specification of the rate limiter, caching off: getPage calls arriving at
\* any time against a transport that answers or stays silent
\* ------------------------------------------------------------------------
NextLimiter ==
    \/ \E s \in Callers, pageId \in PageIds : ClientCall(s, "getPage", pageId, NoFilter, NoProps)
    \/ \E s \in Slots : Send(s)
    \/ \E f \in flights : StoreHandle(f)
    \/ \E f \in flights : DeliverOk(f)
    \/ \E s \in Slots : Timeout(s)
    \/ \E s \in Slots : BackoffWake(s)
    \/ ProcessQueueWake
    \/ Tick

SpecLimiter == InitRetry /\ [][NextLimiter]_vars

\* slot s leaves the rate limiter in this step
Released(s) == call[s].pc # "released" /\ call'[s].pc = "released"

\* C7: two consecutive releases are at least MinInterval apart.
C7_MinimumSpacing ==
    [][\A s \in Slots : Released(s) => now - lastRequestTime >= MinInterval]_vars

\* C8: requests leave the limiter in the order they entered it: while
\* requests are queued, the one released is the head of the queue.
C8_ReleasedInArrivalOrder ==
    [][\A s \in Slots : (Released(s) /\ requestQueue # <<>>) => s = Head(requestQueue)]_vars

\* ------------------------------------------------------------------------
\* Specification of the decision transition: updateDecision calls on two
\* slots with caching on, against a transport that always answers
\* ------------------------------------------------------------------------
InitDecision == Init /\ cacheEnabled /\ store = AllPending

NextDecision ==
    \/ \E s \in Callers, decision \in Decisions, reasoning \in Reasonings :
          updateDecision(s, "p1", decision, reasoning)
    \/ \E s \in Slots : UpdateDecisionContinue(s)
    \/ \E s \in Slots : Send(s)
    \/ \E f \in flights : StoreHandle(f)
    \/ \E f \in flights : DeliverOk(f)
    \/ ProcessQueueWake
    \/ CleanupTimer
    \/ Tick

SpecDecision == InitDecision /\ [][NextDecision]_vars

\* slot s, serving updateDecision, has sent an updatePage request to the transport
SentUpdate(s) ==
    /\ svc[s].kind = "updateDecision"
    /\ svc[s].stage = "update"
    /\ call[s].sent >= 1

\* C5: an updateDecision with valid input, called when the status of its
\* request in the store is Approved or Denied, sends no updatePage and, once
\* its getPage has returned, throws INVALID_STATUS
C5_DecidedRequestRejected ==
    \A s \in Slots :
        (/\ svc[s].kind = "updateDecision"
         /\ svc[s].statusAtCall \in Decisions)
        => /\ ~SentUpdate(s)
           /\ Outcome(s) \in {"", "INVALID_STATUS"}

\* C6: of two updateDecision calls on the same request, which was Pending
\* when the first began, at most one sends an update to the store
C6_AtMostOneUpdateSent ==
    \A s1, s2 \in Slots :
        (s1 # s2 /\ call[s1].arg = call[s2].arg) => ~(SentUpdate(s1) /\ SentUpdate(s2))

\* ------------------------------------------------------------------------
\* Specification of cache lookups, caching on: both slots read page p1,
\* slot 1 also decides p1, slot 2 also reads the database; the transport
\* always answers
\* ------------------------------------------------------------------------
InitCache == Init /\ cacheEnabled /\ store = AllPending

NextCache ==
    \/ \E s \in Callers : ClientCall(s, "getPage", "p1", NoFilter, NoProps)
    \/ ClientCall(2, "queryDatabase", "db", NoFilter, NoProps)
    \/ updateDecision(1, "p1", "Approved", "fits the monthly budget")
    \/ UpdateDecisionContinue(1)
    \/ \E s \in Slots : Send(s)
    \/ \E f \in flights : StoreHandle(f)
    \/ \E f \in flights : DeliverOk(f)
    \/ ProcessQueueWake
    \/ CleanupTimer
    \/ clearCache
    \/ Tick

SpecCache == InitCache /\ [][NextCache]_vars

\* ------------------------------------------------------------------------
\* Specification of cache invalidation, caching on: slot 1 decides p1
\* against a transport that answers, answers late, or reports the page
\* missing; slot 2 reads page p12 and the database
\* ------------------------------------------------------------------------
ObjectNotFound == RawError("ObjectNotFound", 404, FALSE, NoHeader)

NextInvalidate ==
    \/ ClientCall(2, "getPage", "p12", NoFilter, NoProps)
    \/ ClientCall(2, "queryDatabase", "db", NoFilter, NoProps)
    \/ updateDecision(1, "p1", "Approved", "fits the monthly budget")
    \/ UpdateDecisionContinue(1)
    \/ \E s \in Slots : Send(s)
    \/ \E f \in flights : StoreHandle(f)
    \/ \E f \in flights : DeliverOk(f)
    \/ \E f \in {g \in flights : g.op = "updatePage"} : DeliverError(f, ObjectNotFound)
    \/ Timeout(1)
    \/ BackoffWake(1)
    \/ ProcessQueueWake
    \/ CleanupTimer
    \/ Tick

SpecInvalidate == InitCache /\ [][NextInvalidate]_vars

\* the call of slot s2, answered by the transport and not from the cache,
\* succeeded with operation op and parameter arg, and was made no more than
\* TtlMs ago
EarlierSuccess(s2, op, arg) ==
    /\ call[s2].op = op /\ call[s2].arg = arg /\ call[s2].filter = NoFilter
    /\ call[s2].pc = "done" /\ ~call[s2].fromCache
    /\ now - metrics[s2].startTime <= TtlMs

\* slot s begins a read in this step
BeginsRead(s) ==
    /\ svc'[s].kind = "client"
    /\ call'[s].sent = 0 /\ call'[s].attempt = 0
    /\ call[s].pc \in {"idle", "done", "failed"}
    /\ call'[s].op \in ReadOps
    /\ ClientCall(s, call'[s].op, call'[s].arg, call'[s].filter, NoProps)

\* the call slot s begins in this step returns the cached data at once and
\* sends nothing
ServedFromCache(s, key) ==
    /\ call'[s].pc = "done" /\ call'[s].fromCache /\ call'[s].sent = 0
    /\ CacheHas(cache, key) /\ call'[s].result = CacheGet(cache, key).data
    /\ flights' = {IF f.slot = s THEN [f EXCEPT !.superseded = TRUE] ELSE f : f \in flights}

\* the call slot s begins in this step drops the entry of key and enters the
\* rate limiter on its way to the transport
GoesToTransport(s, key) ==
    /\ call'[s].pc \in {"rate", "released"}
    /\ ~call'[s].fromCache
    /\ ~CacheHas(cache', key)

\* C9 as stated: a read with the operation and parameter of an earlier
\* successful call made no more than TtlMs ago is served from the cache
\* without the transport, and a read that finds an entry cached more than
\* TtlMs ago goes to the transport
C9_HitAfterEarlierCall ==
    [][\A s \in Slots :
          BeginsRead(s) =>
              LET op == call'[s].op
                  arg == call'[s].arg
                  key == CacheKeyOf(op, arg, NoFilter)
              IN  /\ (\E s2 \in Slots : EarlierSuccess(s2, op, arg)) => ServedFromCache(s, key)
                  /\ (CacheHas(cache, key) /\ now - CacheGet(cache, key).timestamp > TtlMs)
                        => GoesToTransport(s, key)]_vars

\* C9, amended: the read is served from the cache when, besides, the entry
\* of its key is still in the cache (no updatePage, clearCache or sweep has
\* removed it); a read that finds an entry cached more than TtlMs ago goes
\* to the transport
C9_HitWhileEntryKept ==
    [][\A s \in Slots :
          BeginsRead(s) =>
              LET op == call'[s].op
                  arg == call'[s].arg
                  key == CacheKeyOf(op, arg, NoFilter)
              IN  /\ (CacheHas(cache, key) /\ \E s2 \in Slots : EarlierSuccess(s2, op, arg))
                        => ServedFromCache(s, key)
                  /\ (CacheHas(cache, key) /\ now - CacheGet(cache, key).timestamp > TtlMs)
                        => GoesToTransport(s, key)]_vars

\* a read was served from the cache that the call of another slot, answered
\* by the transport, had filled
C9_Witness ==
    \E s, s2 \in Slots :
        /\ s # s2
        /\ svc[s].kind = "client" /\ call[s].pc = "done" /\ call[s].fromCache
        /\ call[s2].pc = "done" /\ ~call[s2].fromCache
        /\ call[s2].op = call[s].op /\ call[s2].arg = call[s].arg
        /\ call[s].result = call[s2].result
        /\ metrics[s2].endTime <= metrics[s].startTime

\* the response of flight f arrives in this step
Delivered(f) == f \in flights /\ f.phase = "replied" /\ flights' = flights \ {f}

CacheEntries(c) == {c[i] : i \in 1..Len(c)}

\* from cache c to c2 exactly the entries whose key contains pageId went,
\* and the others kept their order
Invalidated(c, c2, pageId) ==
    /\ \A e \in CacheEntries(c2) : ~Includes(e.key, pageId)
    /\ CacheEntries(c2) = {e \in CacheEntries(c) : ~Includes(e.key, pageId)}
    /\ \A i, j \in 1..Len(c2) : i < j => CacheIndex(c, c2[i].key) < CacheIndex(c, c2[j].key)

\* the step in which the updatePage call of slot s completes successfully
UpdateSucceeds(s) ==
    /\ call[s].op = "updatePage" /\ call[s].pc = "flight"
    /\ call'[s].pc = "done"

\* C10 as stated: the step that completes updatePage(X) successfully leaves
\* no entry whose key contains X and keeps the others, and a transport
\* answer to an updatePage call that has failed removes nothing
C10_FailedUpdateRemovesNothing ==
    [][\A f \in flights : (f.op = "updatePage" /\ Delivered(f)) =>
          /\ UpdateSucceeds(f.slot) => Invalidated(cache, cache', f.arg)
          /\ (/\ ~f.superseded
              /\ call[f.slot].op = "updatePage" /\ call[f.slot].pc = "failed")
             => cache' = cache]_vars

\* C10, amended: every answer of the transport to an updatePage(X) request,
\* also one that arrives after its attempt timed out, leaves no entry whose
\* key contains X and keeps the others; the step in which an attempt of
\* updatePage fails removes nothing
C10_EveryAnswerInvalidates ==
    [][/\ \A f \in flights : (f.op = "updatePage" /\ Delivered(f)) =>
              Invalidated(cache, cache', f.arg)
       /\ \A s \in Slots :
              (/\ call[s].op = "updatePage" /\ call[s].pc = "flight"
               /\ call'[s].pc \in {"failed", "backoff"})
              => cache' = cache]_vars

\* updatePage of p1 has completed successfully, and an entry cached before
\* that, whose key does not contain p1, is still there
C10_Witness ==
    /\ SentUpdate(1) /\ call[1].pc = "done" /\ call[1].arg = "p1"
    /\ \A e \in CacheEntries(cache) : ~Includes(e.key, "p1")
    /\ \E e \in CacheEntries(cache) : e.timestamp < metrics[1].endTime

\* ------------------------------------------------------------------------
\* Cache capacity (checked under SpecInvalidate, where three keys are read)
\* ------------------------------------------------------------------------
\* C11: the cache never holds more than MaxSize entries
C11_CacheWithinMaxSize == Len(cache) <= MaxSize

\* ------------------------------------------------------------------------
\* Decision scoring (DecisionContextService): pure functions
\* ------------------------------------------------------------------------
Categories == {"Food", "Entertainment", "Shopping", "Bills", "Emergency", "Other"}
Urgencies == {"Low", "Medium", "High", "Critical"}

Max(a, b) == IF a > b THEN a ELSE b

\* the clamp as if it had no upper limit
ClampAtLeast0(x) == Max(0, x)

\* Math.max(0, Math.min(100, x))
Clamp100(x) == Max(0, Min(100, x))

RECURSIVE SumOf(_, _)
\* Array.reduce((sum, x) => sum + x[field], 0)
SumOf(seq, field) ==
    IF seq = <<>> THEN 0 ELSE Head(seq)[field] + SumOf(Tail(seq), field)

\* calculateFinancialHealthScore: the score and the number of concerns
calculateFinancialHealthScore(budget, goals, debts) ==
    LET budgetPenalty == IF budget.percentageUsed < 50 THEN 0
                         ELSE IF budget.percentageUsed < 75 THEN 0
                         ELSE IF budget.percentageUsed < 90 THEN 15 ELSE 30
        totalDebt == SumOf(debts, "remainingAmount")
        monthlyPayments == SumOf(debts, "minimumPayment")
        \* monthlyPayments > monthlyBudget * 0.3
        debtPenalty == IF totalDebt = 0 THEN 0
                       ELSE IF 10 * monthlyPayments > 3 * budget.monthlyBudget THEN 20 ELSE 0
        activeGoalsCount == Len(SelectSeq(goals, LAMBDA g : g.status = "active"))
        goalPenalty == IF activeGoalsCount > 0 THEN 0 ELSE 10
    IN  [score |-> Clamp100(100 - budgetPenalty - debtPenalty - goalPenalty),
         concerns |-> (IF budgetPenalty > 0 THEN 1 ELSE 0) + (IF debtPenalty > 0 THEN 1 ELSE 0)
                      + (IF goalPenalty > 0 THEN 1 ELSE 0)]

\* the budget test as if half the remaining budget were the limit
ExceedsHalfBudget(request, budget) == 2 * request.amount > budget.remainingBudget

\* the budget test as if it compared with the whole monthly budget
ExceedsMonthlyBudget(request, budget) == request.amount > budget.monthlyBudget

\* request.amount > budget.remainingBudget
ExceedsBudget(request, budget) == request.amount > budget.remainingBudget

\* one rule of generateRecommendation: its change of the confidence and the
\* strings it pushes
Rule(delta, reasoning, conditions, alternatives) ==
    [delta |-> delta, reasoning |-> reasoning, conditions |-> conditions,
     alternatives |-> alternatives]
NoRule == Rule(0, <<>>, <<>>, <<>>)

\* the rules of generateRecommendation that fire, in the order of the code;
\* the budget rule comes first and is kept apart because it assigns
RecommendationRules(request, budget, financialHealth, conflictingGoals, highPriorityDebts) ==
    << \* budget impact, the else-if branch: amount > remainingBudget * 0.5
       IF ~ExceedsBudget(request, budget) /\ 2 * request.amount > budget.remainingBudget
       THEN Rule(0 - 15, <<"Request uses significant portion of remaining budget">>,
                 <<"Monitor remaining budget carefully after approval">>, <<>>)
       ELSE NoRule,
       \* urgency
       IF request.urgency \in {"Critical", "High"}
       THEN IF request.category = "Emergency"
            THEN Rule(10, <<"High urgency emergency request has priority">>, <<>>, <<>>)
            ELSE Rule(0, <<"High urgency - verify necessity">>, <<>>, <<>>)
       ELSE NoRule,
       \* financial health
       IF financialHealth.score < 50
       THEN Rule(0 - 20, <<"Current financial health score is concerning">>, <<>>, <<>>)
       ELSE IF financialHealth.score > 80
       THEN Rule(10, <<"Strong financial health supports discretionary spending">>, <<>>, <<>>)
       ELSE NoRule,
       \* goal conflicts
       IF Len(conflictingGoals) > 0
       THEN Rule(0 - 15, <<"Request may conflict with active financial goals">>,
                 <<"Consider impact on financial goals before approval">>, <<>>)
       ELSE NoRule,
       \* high priority debts
       IF Len(highPriorityDebts) > 0 /\ request.category \notin {"Emergency", "Bills"}
       THEN Rule(0 - 10, <<"High priority debts exist - prioritize debt payments">>, <<>>, <<>>)
       ELSE NoRule,
       \* category-specific logic
       IF request.category = "Entertainment" /\ request.amount > 200
       THEN Rule(0 - 10, <<"Large entertainment expense requires justification">>,
                 <<"Ensure this is a planned expense, not impulse purchase">>, <<>>)
       ELSE NoRule >>

RECURSIVE Concat(_, _)
\* the strings the rules pushed to the list named field, in order
Concat(rules, field) ==
    IF rules = <<>> THEN <<>> ELSE Head(rules)[field] \o Concat(Tail(rules), field)

\* generateRecommendation
generateRecommendation(request, budget, financialHealth, conflictingGoals, highPriorityDebts) ==
    LET exceeds == ExceedsBudget(request, budget)
        start == IF exceeds THEN 90 ELSE 80
        rules == RecommendationRules(request, budget, financialHealth, conflictingGoals,
                                     highPriorityDebts)
    IN  [shouldApprove |-> ~exceeds,
         confidence |-> Clamp100(start + SumOf(rules, "delta")),
         reasoning |-> (IF exceeds THEN <<"Request amount exceeds remaining budget">> ELSE <<>>)
                       \o Concat(rules, "reasoning"),
         conditions |-> Concat(rules, "conditions"),
         alternatives |-> (IF exceeds
                           THEN <<"Consider deferring to next month or reducing amount">>
                           ELSE <<>>) \o Concat(rules, "alternatives")]

\* ------------------------------------------------------------------------
\* Specification of the scoring functions: the arguments are drawn at the
\* start, one step evaluates the function
\* ------------------------------------------------------------------------
Amounts == {50, 100, 200, 201, 300}
RemainingBudgets == {0 - 100, 0, 150, 200, 400, 1000}
Scores == {0, 40, 49, 50, 65, 80, 81, 100}
PercentagesUsed == {0, 49, 50, 74, 75, 89, 90, 120}
MonthlyBudget == 3000

Requests == [amount : Amounts, category : Categories, urgency : Urgencies]

Goals == [status : {"active", "completed"}]
Debts == [remainingAmount : {0, 5000}, minimumPayment : {0, 500, 1000}]

\* the sequences over S of length at most 2
UpTo2(S) == {<<>>} \cup {<<x>> : x \in S} \cup {<<x, y>> : x \in S, y \in S}

RecommendationInputs ==
    [fn : {"generateRecommendation"},
     request : Requests,
     budget : [remainingBudget : RemainingBudgets, monthlyBudget : {MonthlyBudget}],
     financialHealth : [score : Scores],
     conflictingGoals : {<<>>, <<[status |-> "active"]>>},
     highPriorityDebts : {<<>>, <<[remainingAmount |-> 5000, minimumPayment |-> 500]>>}]

HealthInputs ==
    [fn : {"calculateFinancialHealthScore"},
     budget : [percentageUsed : PercentagesUsed, monthlyBudget : {MonthlyBudget}],
     goals : UpTo2(Goals),
     debts : UpTo2(Debts)]

InitScoring ==
    /\ InitClient /\ cacheEnabled /\ store = AllPending
    /\ input \in RecommendationInputs \cup HealthInputs
    /\ output = NoOutput

EvaluateHealth ==
    /\ input.fn = "calculateFinancialHealthScore"
    /\ output = NoOutput
    /\ output' = calculateFinancialHealthScore(input.budget, input.goals, input.debts)
    /\ UNCHANGED <<client, input>>

EvaluateRecommendation ==
    /\ input.fn = "generateRecommendation"
    /\ output = NoOutput
    /\ output' = generateRecommendation(input.request, input.budget, input.financialHealth,
                                        input.conflictingGoals, input.highPriorityDebts)
    /\ UNCHANGED <<client, input>>

NextScoring == EvaluateHealth \/ EvaluateRecommendation

SpecScoring == InitScoring /\ [][NextScoring]_vars

\* C12: a recommendation for a request whose amount exceeds the remaining
\* budget has shouldApprove = FALSE, whatever the other arguments are
C12_OverBudgetNeverApproved ==
    (/\ input.fn = "generateRecommendation" /\ output # NoOutput
     /\ input.request.amount > input.budget.remainingBudget)
    => output.shouldApprove = FALSE

\* a critical emergency request over the remaining budget, with a strong
\* health score, no conflicts and no debts, was evaluated and not approved
C12_Witness ==
    /\ input.fn = "generateRecommendation" /\ output # NoOutput
    /\ input.request.amount > input.budget.remainingBudget
    /\ input.request.category = "Emergency" /\ input.request.urgency = "Critical"
    /\ input.financialHealth.score > 80
    /\ input.conflictingGoals = <<>> /\ input.highPriorityDebts = <<>>
    /\ output.shouldApprove = FALSE

\* C13: the health score and the confidence are within 0..100
C13_ScoresWithinBounds ==
    /\ (input.fn = "calculateFinancialHealthScore" /\ output # NoOutput)
          => output.score \in 0..100
    /\ (input.fn = "generateRecommendation" /\ output # NoOutput)
          => output.confidence \in 0..100

\* a recommendation whose adjustments add up to more than 100 was clamped
C13_Witness ==
    /\ input.fn = "generateRecommendation" /\ output # NoOutput
    /\ input.request.amount > input.budget.remainingBudget
    /\ input.request.category = "Emergency" /\ input.request.urgency = "High"
    /\ input.financialHealth.score > 80
    /\ output.confidence = 100

\* C14: every recommendation has at least one reasoning string
C14_ReasoningNeverEmpty ==
    (input.fn = "generateRecommendation" /\ output # NoOutput) => Len(output.reasoning) >= 1

\* C15: amount 200, Entertainment, High against 150 remaining: not approved,
\* an alternative is given and the confidence is at least 85, whatever the
\* health score, the conflicting goals and the high-priority debts are
C15_ScenarioA ==
    (/\ input.fn = "generateRecommendation" /\ output # NoOutput
     /\ input.request = [amount |-> 200, category |-> "Entertainment", urgency |-> "High"]
     /\ input.budget.remainingBudget = 150)
    => /\ output.shouldApprove = FALSE
       /\ Len(output.alternatives) >= 1
       /\ output.confidence >= 85

\* ------------------------------------------------------------------------
\* Specification of the context builders: one build is called, with any
\* options, on a client with caching on or off and services configured with
\* a valid or an invalid default budget; the transport answers each query
\* or rejects it with an authentication error, within the request timeout
\* ------------------------------------------------------------------------
\* the horizon of the clock while a build runs: its five queries leave the
\* rate limiter MinInterval apart
MaxBuildTime == 10

SourceFailure == RawError("Unauthorized", 401, FALSE, NoHeader)

BuildOptions == [includeGoals : BOOLEAN, includeDebts : BOOLEAN, includeAccounts : BOOLEAN]
DecisionOptions == [includeComparisons : BOOLEAN]
RequestIds == {"p1", "p2", ""}
DefaultMonthlyBudgets == {3000, 0 - 1}

InitContext ==
    /\ \E budget \in DefaultMonthlyBudgets :
          InitClientWith([NoBuild EXCEPT !.defaultMonthlyBudget = budget])
    /\ store = AllPending
    /\ input = NoInput
    /\ output = NoOutput

NextContext ==
    \/ \E options \in BuildOptions : BuildFinancialContext(options)
    \/ \E requestId \in RequestIds, options \in DecisionOptions :
          BuildDecisionContext(requestId, options)
    \/ LaunchFetch
    \/ FinancialContextContinues
    \/ \E s \in Slots : FetchSettles(s)
    \/ \E s \in Slots : Send(s)
    \/ \E f \in flights : StoreHandle(f)
    \/ \E f \in flights : DeliverOk(f)
    \/ \E f \in flights : DeliverError(f, SourceFailure)
    \/ ProcessQueueWake
    \/ CleanupTimer
    \/ TickUntil(MaxBuildTime)

SpecContext == InitContext /\ [][NextContext]_vars

\* C16: a build whose request exists returns a context when, of its
\* fetches, at most one has failed and that one is a goals, debts, accounts
\* or budget-status fetch
C16_FetchFailuresTolerated ==
    (/\ input.fn \in {"buildFinancialContext", "buildDecisionContext"}
     /\ output # NoOutput
     /\ Cardinality(build.failed) <= 1
     /\ build.failed \subseteq {"goals", "debts", "accounts", "funds", "budget"}
     /\ output.code \notin {"REQUEST_NOT_FOUND", "VALIDATION_ERROR"})
    => ~output.threw

\* ------------------------------------------------------------------------
\* Errors of the core operations and the HTTP error handler
\* ------------------------------------------------------------------------
\* the public operations that read or write through the client
CoreOperations == {"getPendingRequests", "getRecentSpending", "updateDecision",
                   "getActiveGoals", "getAllDebts", "getAccountBalances"}

\* new SpendingRequestServiceError(message, code, { originalError })
SpendingRequestServiceError(code, originalError) ==
    [name |-> "SpendingRequestServiceError", code |-> code, originalError |-> originalError]

\* new FinancialDataServiceError(message, code, { originalError })
FinancialDataServiceError(code, originalError) ==
    [name |-> "FinancialDataServiceError", code |-> code, originalError |-> originalError]

\* The catch block of a core operation, reached with the error the client
\* threw: it is neither a ZodError nor a service error, so the block wraps it
\* in the service's own error, with a code fixed per operation.
CoreOperationCatch(op, error) ==
    CASE op = "getPendingRequests" -> SpendingRequestServiceError("FETCH_PENDING_ERROR", error)
      [] op = "getRecentSpending" -> SpendingRequestServiceError("FETCH_RECENT_ERROR", error)
      [] op = "updateDecision" -> SpendingRequestServiceError("UPDATE_DECISION_ERROR", error)
      [] op = "getActiveGoals" -> FinancialDataServiceError("FETCH_GOALS_ERROR", error)
      [] op = "getAllDebts" -> FinancialDataServiceError("FETCH_DEBTS_ERROR", error)
      [] op = "getAccountBalances" -> FinancialDataServiceError("FETCH_ACCOUNTS_ERROR", error)

\* reply.status(status).send({ error, details })
Reply(status, error, details) == [status |-> status, error |-> error, details |-> details]

ServiceErrorNames == {"SpendingRequestServiceError", "FinancialDataServiceError",
                      "DecisionContextServiceError", "NotionFinancialServiceError"}

\* errorHandler, for the errors of the client and of the services
errorHandler(error) ==
    IF error.name = "NotionRateLimitError" THEN Reply(429, "RATE_LIMITED", "retryAfter")
    ELSE IF error.name = "NotionAuthError" THEN Reply(401, "UNAUTHORIZED", "")
    ELSE IF error.name = "NotionPermissionError" THEN Reply(403, "UNAUTHORIZED", "")
    ELSE IF error.name = "NotionNotFoundError" THEN Reply(404, "NOT_FOUND", "")
    ELSE IF error.name \in {"NotionTimeoutError", "NotionConnectionError"}
        THEN Reply(503, "SERVICE_UNAVAILABLE", "")
    ELSE IF error.name = "NotionError" THEN Reply(502, "NOTION_ERROR", error.code)
    ELSE IF error.name \in ServiceErrorNames THEN
        Reply(IF error.code = "NOT_FOUND" THEN 404
              ELSE IF error.code = "VALIDATION_ERROR" THEN 400
              ELSE 500,
              IF error.code # "" THEN error.code ELSE "INTERNAL_ERROR",
              error.originalError.name)
    ELSE Reply(500, "INTERNAL_ERROR", "")

\* ------------------------------------------------------------------------
\* Specification of the error path: a core operation whose client call fails
\* with a transport error, then the error handler replying to the request
\* ------------------------------------------------------------------------
ErrorInputs == [fn : CoreOperations, error : TransportErrors]

InitErrors ==
    /\ InitClient /\ cacheEnabled /\ store = AllPending
    /\ input \in ErrorInputs
    /\ output = NoOutput

\* the client gives up with handleNotionError(error); the operation's catch
\* block throws
CoreOperationThrows ==
    /\ input.fn \in CoreOperations
    /\ output = NoOutput
    /\ output' = [fn |-> "thrown",
                  error |-> CoreOperationCatch(input.fn, handleNotionError(input.error))]
    /\ UNCHANGED <<client, input>>

\* the route lets the error through to errorHandler
HandleError ==
    /\ output.fn = "thrown"
    /\ output' = [fn |-> "reply", error |-> output.error, reply |-> errorHandler(output.error)]
    /\ UNCHANGED <<client, input>>

NextErrors == CoreOperationThrows \/ HandleError

SpecErrors == InitErrors /\ [][NextErrors]_vars

\* causes that a retry cannot cure: auth, permission, not-found, validation
NonRetryableCause(error) ==
    \/ error.name \in {"NotionAuthError", "NotionPermissionError", "NotionNotFoundError"}
    \/ error.code = "validation_error"

\* causes that may pass: rate limit, timeout, connection, server
TransientCause(error) ==
    \/ error.name \in {"NotionRateLimitError", "NotionTimeoutError", "NotionConnectionError"}
    \/ error.code \in {"INTERNAL_ERROR", "SERVICE_UNAVAILABLE"}

\* C17: when a core operation fails, the code of the error it throws and the
\* reply of the error handler (status and error code) tell a non-retryable
\* cause from a transient one: the same operation failing with a cause of the
\* other kind throws another code or is answered differently
C17_CausesDistinguishable ==
    output.fn = "reply" =>
        \A e2 \in TransportErrors :
            LET c1 == handleNotionError(input.error)
                c2 == handleNotionError(e2)
                thrown2 == CoreOperationCatch(input.fn, c2)
                reply2 == errorHandler(thrown2)
            IN  (\/ NonRetryableCause(c1) /\ TransientCause(c2)
                 \/ TransientCause(c1) /\ NonRetryableCause(c2))
                => \/ thrown2.code # output.error.code
                   \/ reply2.status # output.reply.status
                   \/ reply2.error # output.reply.error

\* ------------------------------------------------------------------------
\* Specification of the similarity score: two requests are drawn at the
\* start, one step scores them
\* ------------------------------------------------------------------------
\* the dates of the requests: 0, 0.5, 1.5, 30 and 100 days after the epoch
RequestDates ==
    {0, TicksPerDay \div 2, 3 * (TicksPerDay \div 2), 30 * TicksPerDay, 100 * TicksPerDay}

ComparedRequests ==
    [category : {"Food", "Entertainment"}, amount : {50, 100, 300},
     urgency : Urgencies, requestDate : RequestDates]

InitSimilarity ==
    /\ InitClient /\ cacheEnabled /\ store = AllPending
    /\ input \in [fn : {"calculateSimilarityScore"},
                  request1 : ComparedRequests, request2 : ComparedRequests]
    /\ output = NoOutput

ScoreSimilarity ==
    /\ input.fn = "calculateSimilarityScore"
    /\ output = NoOutput
    /\ output' = [fn |-> "calculateSimilarityScore",
                  similarity |-> calculateSimilarityScore(input.request1, input.request2)]
    /\ UNCHANGED <<client, input>>

NextSimilarity == ScoreSimilarity

SpecSimilarity == InitSimilarity /\ [][NextSimilarity]_vars

\* C18: the similarity of two requests with positive amounts is the same in
\* both orders, is 0 when their categories differ, and lies between 0 and 1
C18_SimilaritySymmetric ==
    output.fn = "calculateSimilarityScore" =>
        LET a == input.request1
            b == input.request2
        IN  /\ output.similarity = calculateSimilarityScore(b, a)
            /\ a.category # b.category => output.similarity = Zero
            /\ ~output.similarity.nan
            /\ ~DoubleLess(output.similarity, Zero)
            /\ ~DoubleLess(One, output.similarity)

\* two requests of one category that differ in amount, urgency and date
\* have been scored
C18_Witness ==
    /\ output.fn = "calculateSimilarityScore"
    /\ input.request1.category = input.request2.category
    /\ input.request1.amount # input.request2.amount
    /\ input.request1.urgency # input.request2.urgency
    /\ Abs(DiffDays(input.request1.requestDate, input.request2.requestDate)) \in 1..89
    /\ DoubleLess(Zero, output.similarity)
    /\ DoubleLess(output.similarity, One)

\* ------------------------------------------------------------------------
\* Specification of the comparisons: the pages of the store are drawn at
\* the start; getRelevantComparisons is called once, for any request and
\* maxResults, and its query of the recent spending goes through the
\* client to a transport that answers or rejects it
\* ------------------------------------------------------------------------
\* what a page of the store can be: a decided request of one category, of
\* any amount, of the urgency and the day of the request or as far from
\* them as can be; a pending one; one of another category; a page that
\* does not parse; no page
ComparisonPages ==
    {CompletePage("Approved", "Food", amount, when.urgency, when.requestDate) :
        amount \in {0, 50, 300},
        when \in {[urgency |-> "Low", requestDate |-> 0],
                  [urgency |-> "Critical", requestDate |-> 100 * TicksPerDay]}}
    \cup {PendingPage, CompletePage("Approved", "Entertainment", 50, "Low", 0),
          IncompletePage, NoPage}

\* the requests comparisons are asked for: one of a page of the store or of
\* none, as the caller read it while it was pending
ComparisonRequests ==
    {SpendingRequest(id, CompletePage("Pending", "Food", amount, "Low", 0)) :
        id \in {"p0", "p1"}, amount \in {0, 50}}

\* options.maxResults, 0 being out of the range of the schema
ComparisonOptions == [maxResults : {0, 1, 2}]

\* the query is rejected for good
Unauthorized == RawError("Unauthorized", 401, FALSE, NoHeader)

InitComparisons ==
    /\ InitClientStoring(NoBuild, [AllPageIds -> ComparisonPages])
    /\ cacheEnabled
    /\ input = NoInput
    /\ output = NoOutput

NextComparisons ==
    \/ \E request \in ComparisonRequests, options \in ComparisonOptions :
          GetRelevantComparisons(request, options)
    \/ \E s \in Slots : Send(s)
    \/ \E f \in flights : StoreHandle(f)
    \/ \E f \in flights : DeliverOk(f)
    \/ \E f \in flights : DeliverError(f, Unauthorized)
    \/ \E s \in Slots : FetchSettles(s)

SpecComparisons == InitComparisons /\ [][NextComparisons]_vars

\* C19: the comparisons returned for a request never contain a request with
\* its id, contain only decided requests of its category, are in order of
\* non-increasing similarity to it, and are at most maxResults
C19_ComparisonsSelected ==
    (input.fn = "getRelevantComparisons" /\ output # NoOutput /\ ~output.threw) =>
        LET out == output.comparisons
            similarity(i) == calculateSimilarityScore(input.request, out[i])
        IN  /\ \A i \in 1..Len(out) :
                    /\ out[i].id # input.request.id
                    /\ out[i].category = input.request.category
                    /\ out[i].status # "Pending"
            /\ \A i \in 1..Len(out) : \A j \in (i + 1)..Len(out) :
                    ~DoubleLess(similarity(i), similarity(j))
            /\ Len(out) <= input.options.maxResults

\* the query of the recent spending was sent and answered with the request
\* itself, decided, and two more comparable requests, the less similar one
\* first: one of the amount of the request, as far from it in urgency and
\* date as can be (0.4 + 0.3 in doubles), and one of its urgency and date
\* whose amount is six times as large (0.4 + 0.2 + 0.1 in doubles, the next
\* double up); two were asked for and returned, the more similar one first
C19_Witness ==
    /\ input.fn = "getRelevantComparisons" /\ output # NoOutput /\ ~output.threw
    /\ \E s \in Slots : /\ svc[s].kind = "fetch" /\ svc[s].outcome = "OK"
                        /\ call[s].sent = 1 /\ metrics[s].success
                        /\ \A id \in AllPageIds : call[s].result.pages[id] = store[id]
    /\ input.request = SpendingRequest("p1", PendingPage)
    /\ ComparableIgnoringId(input.request, store["p1"])
    /\ store["p12"] = CompletePage("Approved", "Food", 50, "Critical", 100 * TicksPerDay)
    /\ store["p2"] = CompletePage("Approved", "Food", 300, "Low", 0)
    /\ DoubleLess(calculateSimilarityScore(input.request, store["p12"]),
                  calculateSimilarityScore(input.request, store["p2"]))
    /\ input.options.maxResults = 2
    /\ output.comparisons = <<SpendingRequest("p2", store["p2"]),
                              SpendingRequest("p12", store["p12"])>>

\* ------------------------------------------------------------------------
\* Spending per category (FinancialContextHelpers.calculateCategoryBreakdown)
\* ------------------------------------------------------------------------
\* whether the forEach adds the request to the breakdown
Counted(request) == request.status = "Approved" \/ request.status = "Pending"

\* breakdown[category] after the forEach, 0 for a key that was never set:
\* the amounts of the counted requests of the category
RECURSIVE CategoryTotal(_, _)
CategoryTotal(spending, category) ==
    IF spending = <<>> THEN 0
    ELSE (IF Counted(Head(spending)) /\ Head(spending).category = category
          THEN Head(spending).amount ELSE 0)
         + CategoryTotal(Tail(spending), category)

\* the result holds the six categories, each with breakdown[category] || 0
calculateCategoryBreakdown(spending) ==
    [category \in Categories |-> CategoryTotal(spending, category)]

\* ------------------------------------------------------------------------
\* Specification of the breakdown: the requests, as parsed from Notion pages,
\* are drawn at the start, one step computes the breakdown
\* ------------------------------------------------------------------------
\* what the Category select of a page can hold: parseSpendingRequestFromPage
\* takes any non-empty option name
SelectedCategories == {"Food", "Bills", "Travel"}

ParsedRequests ==
    [category : SelectedCategories, status : {"Pending", "Approved", "Denied"},
     amount : {0 - 50, 0, 100}]

SpendingLists ==
    UpTo2(ParsedRequests)
    \cup {<<x, y, z>> : x \in ParsedRequests, y \in ParsedRequests,
                        z \in [category : SelectedCategories, status : {"Approved"},
                               amount : {100}]}

InitBreakdown ==
    /\ InitClient /\ cacheEnabled /\ store = AllPending
    /\ input \in [fn : {"calculateCategoryBreakdown"}, spending : SpendingLists]
    /\ output = NoOutput

CalculateCategoryBreakdown ==
    /\ input.fn = "calculateCategoryBreakdown"
    /\ output = NoOutput
    /\ output' = [fn |-> "calculateCategoryBreakdown",
                  breakdown |-> calculateCategoryBreakdown(input.spending)]
    /\ UNCHANGED <<client, input>>

NextBreakdown == CalculateCategoryBreakdown

SpecBreakdown == InitBreakdown /\ [][NextBreakdown]_vars

\* the amounts of the counted requests
RECURSIVE CountedTotal(_)
CountedTotal(spending) ==
    IF spending = <<>> THEN 0
    ELSE (IF Counted(Head(spending)) THEN Head(spending).amount ELSE 0)
         + CountedTotal(Tail(spending))

RECURSIVE SumOver(_, _)
SumOver(f, S) ==
    IF S = {} THEN 0
    ELSE LET x == CHOOSE x \in S : TRUE IN f[x] + SumOver(f, S \ {x})

\* C20: the breakdown has exactly the six categories, no value is negative,
\* and the values add up to the amounts of the Pending and Approved requests
C20_BreakdownComplete ==
    output.fn = "calculateCategoryBreakdown" =>
        /\ DOMAIN output.breakdown = Categories
        /\ \A category \in Categories : output.breakdown[category] >= 0
        /\ SumOver(output.breakdown, Categories) = CountedTotal(input.spending)

\* ------------------------------------------------------------------------
\* Financial health: the helper FinancialContextHelpers.assessFinancialHealth
\* ------------------------------------------------------------------------
NoBudgetAnalysis == [given |-> FALSE, percentageUsed |-> 0, onTrack |-> TRUE]

\* Math.max(...Object.values(categoryBreakdown))
RECURSIVE MaxOver(_, _)
MaxOver(f, S) ==
    LET x == CHOOSE x \in S : TRUE
    IN  IF S = {x} THEN f[x] ELSE Max(f[x], MaxOver(f, S \ {x}))

\* assessFinancialHealth: the score and the numbers of factors and concerns
assessFinancialHealth(context, budgetAnalysis) ==
    LET exhausted == budgetAnalysis.given /\ budgetAnalysis.percentageUsed > 90
        high == budgetAnalysis.given /\ ~exhausted /\ budgetAnalysis.percentageUsed > 75
        offTrack == budgetAnalysis.given /\ ~budgetAnalysis.onTrack
        \* emergencySpending > monthlyTotal * 0.3
        stress == 10 * context.categoryBreakdown["Emergency"] > 3 * context.monthlyTotal
        frequent == context.urgentRequestsCount > 5
        \* maxCategorySpending > monthlyTotal * 0.6
        concentrated == 10 * MaxOver(context.categoryBreakdown, Categories)
                            > 6 * context.monthlyTotal
        Cost(applies, penalty) == IF applies THEN penalty ELSE 0
        Count(applies) == IF applies THEN 1 ELSE 0
    IN  [score |-> Clamp100(100 - Cost(exhausted, 20) - Cost(high, 10) - Cost(offTrack, 15)
                            - Cost(stress, 15) - Cost(frequent, 10) - Cost(concentrated, 10)),
         factors |-> Count(high) + Count(budgetAnalysis.given /\ ~exhausted /\ ~high)
                     + Count(~frequent /\ context.urgentRequestsCount = 0)
                     + Count(~concentrated),
         concerns |-> Count(exhausted) + Count(offTrack) + Count(stress) + Count(frequent)
                      + Count(concentrated)]

\* ------------------------------------------------------------------------
\* Specification of the two health scores: the arguments are drawn at the
\* start, one step evaluates the function
\* ------------------------------------------------------------------------
AssessInputs ==
    [fn : {"assessFinancialHealth"},
     context : {[categoryBreakdown |-> [c \in Categories |->
                                            IF c = "Emergency" THEN e
                                            ELSE IF c = "Food" THEN f ELSE 0],
                 monthlyTotal |-> e + f,
                 urgentRequestsCount |-> u] : e \in {0, 40}, f \in {0, 60, 100}, u \in {0, 3, 6}},
     budgetAnalysis : {NoBudgetAnalysis}
                      \cup [given : {TRUE}, percentageUsed : PercentagesUsed \cup {76, 91},
                            onTrack : BOOLEAN]]

InitHealth ==
    /\ InitClient /\ cacheEnabled /\ store = AllPending
    /\ input \in HealthInputs \cup AssessInputs
    /\ output = NoOutput

AssessFinancialHealth ==
    /\ input.fn = "assessFinancialHealth"
    /\ output = NoOutput
    /\ output' = assessFinancialHealth(input.context, input.budgetAnalysis)
    /\ UNCHANGED <<client, input>>

NextHealth == EvaluateHealth \/ AssessFinancialHealth

SpecHealth == InitHealth /\ [][NextHealth]_vars

\* C21: the health score of the decision context is 100 less 10 for a budget
\* utilization above 75% (20 above 90%), less 20 for minimum payments on
\* open debts above 30% of the monthly budget, less 10 without an active goal, clamped
\* to 0..100; and either health score below 100 comes with a concern
C21_HealthScorePenalties ==
    /\ (input.fn = "calculateFinancialHealthScore" /\ output # NoOutput) =>
          LET budgetPenalty == IF input.budget.percentageUsed > 90 THEN 20
                               ELSE IF input.budget.percentageUsed > 75 THEN 10 ELSE 0
              debtPenalty == IF /\ SumOf(input.debts, "remainingAmount") # 0
                                /\ 10 * SumOf(input.debts, "minimumPayment")
                                        > 3 * input.budget.monthlyBudget
                             THEN 20 ELSE 0
              goalPenalty == IF \E i \in 1..Len(input.goals) : input.goals[i].status = "active"
                             THEN 0 ELSE 10
          IN  output.score = Max(0, Min(100, 100 - budgetPenalty - debtPenalty - goalPenalty))
    /\ (input.fn \in {"calculateFinancialHealthScore", "assessFinancialHealth"}
        /\ output # NoOutput /\ output.score < 100) => output.concerns >= 1

\* the confidence the same arguments get when the request's urgency is Low
ConfidenceAtLowUrgency ==
    generateRecommendation([input.request EXCEPT !.urgency = "Low"], input.budget,
                           input.financialHealth, input.conflictingGoals,
                           input.highPriorityDebts).confidence

\* C22: against the same request with Low urgency, High or Critical urgency
\* makes the confidence 10 lower outside the Emergency category and 10
\* higher (up to 100) inside it; Medium urgency makes no difference
C22_UrgencyAdjustsConfidence ==
    (input.fn = "generateRecommendation" /\ output # NoOutput) =>
        IF input.request.urgency \in {"High", "Critical"}
        THEN IF input.request.category = "Emergency"
             THEN output.confidence = Min(100, ConfidenceAtLowUrgency + 10)
             ELSE output.confidence = Max(0, ConfidenceAtLowUrgency - 10)
        ELSE output.confidence = ConfidenceAtLowUrgency

\* the transport calls of the call slot s is serving that have not finished
InFlight(s) == {f \in flights : f.slot = s /\ ~f.superseded}

\* C23: at most one transport call of an operation is in flight at any
\* time: an attempt starts only after the transport call of the attempt
\* before it has finished
C23_OneTransportCallInFlight ==
    \A s \in Slots : Cardinality(InFlight(s)) <= 1

\* the result of flight f, a read whose attempt the timeout has ended, is
\* arriving in this step
LateResultArrives(f) ==
    /\ f.op \in ReadOps
    /\ f.phase = "replied"
    /\ ~f.live
    /\ flights' = flights \ {f}

\* C24: the result of a read that arrives after the timeout has ended its
\* attempt leaves the cache, the metrics records and the calls' outcomes as
\* they are
C24_LateResultIgnored ==
    [][\A f \in flights :
          LateResultArrives(f) => /\ cache' = cache
                                  /\ metrics' = metrics
                                  /\ call' = call
                                  /\ svc' = svc]_vars

\* the timeout ended an attempt of a read, the read has since returned to
\* its caller (the slot serves its next call), and the store's answer to that
\* attempt is about to arrive
C24_Witness ==
    \E f \in flights :
        /\ f.op \in ReadOps /\ f.phase = "replied" /\ ~f.live
        /\ f.superseded
        /\ metrics[f.slot].startTime # NoTime

\* ------------------------------------------------------------------------
\* Specification of the waits between attempts, in milliseconds: the
\* configuration and the error of each failed attempt are drawn at the
\* start, each step is the catch block choosing the wait after one attempt
\* ------------------------------------------------------------------------
BackoffInputs ==
    [fn : {"withRetry"},
     errors : UpTo2({NotionRateLimitError(1), NotionRateLimitError(0),
                     NotionRateLimitError(NoRetryAfter), NotionTimeoutError,
                     NotionError("INTERNAL_ERROR", 500)}),
     baseDelay : {20, 100},
     maxDelay : {105, 210, 30000}]

InitBackoff ==
    /\ InitClient /\ cacheEnabled /\ store = AllPending
    /\ input \in BackoffInputs
    /\ output = [fn |-> "withRetry", waits |-> <<>>]

\* attempt Len(output.waits) has failed with a retryable error and is not the
\* last one
RetryWait ==
    /\ input.fn = "withRetry"
    /\ Len(output.waits) < Len(input.errors)
    /\ LET attempt == Len(output.waits)
       IN  \E delay \in RetryDelay(input.errors[attempt + 1], attempt, input.baseDelay,
                                   input.maxDelay, 1) :
               output' = [output EXCEPT !.waits = Append(@, delay)]
    /\ UNCHANGED <<client, input>>

NextBackoff == RetryWait

SpecBackoff == InitBackoff /\ [][NextBackoff]_vars

\* C25: the wait after failed attempt n is retryAfter seconds when the
\* attempt failed with a rate-limit error that carries a retry-after value,
\* whatever the attempts before it failed with; otherwise it is at least
\* min(maxDelay, baseDelay * 2^n), at most min(maxDelay, 1.1 * baseDelay * 2^n)
C25_RetryAfterOverrides ==
    (input.fn = "withRetry" /\ output.fn = "withRetry") =>
        \A i \in 1..Len(output.waits) :
            LET lastError == input.errors[i]
                wait == output.waits[i]
                exponentialDelay == input.baseDelay * Pow2(i - 1)
            IN  IF /\ lastError.name = "NotionRateLimitError"
                   /\ lastError.retryAfter # NoRetryAfter
                THEN wait = lastError.retryAfter * 1000
                ELSE /\ wait >= Min(input.maxDelay, exponentialDelay)
                     /\ 10 * wait <= Min(10 * input.maxDelay, 11 * exponentialDelay)
                     /\ wait <= input.maxDelay

\* C26: once updateDecision of p1 has returned, a query of the database
\* that is answered in the same step (from the cache) reports p1 as the
\* store holds it, which is what the query would return with caching off
C26_QueriesSeeDecision ==
    [][(/\ Outcome(1) = "OK"
        /\ BeginsRead(2)
        /\ call'[2].op = "queryDatabase"
        /\ call'[2].pc = "done")
       => call'[2].result.pages["p1"].status = store["p1"].status]_vars

\* ------------------------------------------------------------------------
\* Parsing a batch of pages (SpendingRequestService)
\* ------------------------------------------------------------------------
\* What the extractors give for a page: the title and the select options as
\* strings ("" when the property is empty or missing), the amount as a
\* sequence (<<>> for null, <<n>> for the number n).
RawRequests ==
    [title : {"", "Laptop"}, amount : {<<>>, <<0 - 5>>, <<0>>, <<100>>},
     category : {"", "Food", "Travel"}, status : {"", "Pending", "Done"},
     urgency : {"", "High", "ASAP"}]

NullRequest == [title |-> "", amount |-> <<>>, category |-> "", status |-> "", urgency |-> ""]

\* parseSpendingRequestFromPage on the extracted properties: null
\* (NullRequest) when a required field is missing, else the data as it is
parseRawData(rawData) ==
    IF \/ rawData.title = "" \/ rawData.amount = <<>> \/ rawData.category = ""
       \/ rawData.status = "" \/ rawData.urgency = ""
    THEN NullRequest
    ELSE rawData

\* pages.map(page => parseSpendingRequestFromPage(page))
\*      .filter(request => request !== null)
parsePages(pages) ==
    SelectSeq([i \in 1..Len(pages) |-> parseRawData(pages[i])],
              LAMBDA request : request # NullRequest)

\* ------------------------------------------------------------------------
\* Specification of the parsing: the pages of a query result are drawn at
\* the start, one step parses them
\* ------------------------------------------------------------------------
InitParsing ==
    /\ InitClient /\ cacheEnabled /\ store = AllPending
    /\ input \in [fn : {"getPendingRequests", "getRecentSpending"}, pages : UpTo2(RawRequests)]
    /\ output = NoOutput

ParsePages ==
    /\ input.fn \in {"getPendingRequests", "getRecentSpending"}
    /\ output = NoOutput
    /\ output' = [fn |-> input.fn, requests |-> parsePages(input.pages)]
    /\ UNCHANGED <<client, input>>

NextParsing == ParsePages

SpecParsing == InitParsing /\ [][NextParsing]_vars

\* the invariants of the entity (SpendingRequestSchema)
ValidRequest(request) ==
    /\ request.title # ""
    /\ request.amount # <<>> /\ request.amount[1] > 0
    /\ request.category \in Categories
    /\ request.status \in {"Pending", "Approved", "Denied"}
    /\ request.urgency \in Urgencies

\* C27: the requests returned are the pages that satisfy the entity's
\* invariants, in their order; the others are dropped
C27_OnlyValidRequestsReturned ==
    output.fn \in {"getPendingRequests", "getRecentSpending"} =>
        /\ \A i \in 1..Len(output.requests) : ValidRequest(output.requests[i])
        /\ output.requests = SelectSeq(input.pages, ValidRequest)

\* ------------------------------------------------------------------------
\* Budget status (FinancialDataService.getMonthlyBudgetStatus)
\* ------------------------------------------------------------------------
\* The BudgetStatus getMonthlyBudgetStatus(monthlyBudget) builds, 0 standing
\* for an argument left out; percentageUsed is rounded down. The function
\* reads no spending request: currentSpending is the constant 0.
BudgetStatusOf(monthlyBudget) ==
    LET budget == IF monthlyBudget # 0 THEN monthlyBudget ELSE MonthlyBudget
        currentSpending == 0
        percentageUsed == (currentSpending * 100) \div budget
    IN  [fn |-> "getMonthlyBudgetStatus",
         monthlyBudget |-> budget,
         currentSpending |-> currentSpending,
         remainingBudget |-> budget - currentSpending,
         percentageUsed |-> percentageUsed,
         budgetHealth |-> IF percentageUsed < 50 THEN "excellent"
                          ELSE IF percentageUsed < 75 THEN "good"
                          ELSE IF percentageUsed < 90 THEN "warning"
                          ELSE "critical"]

\* ------------------------------------------------------------------------
\* Specification of the budget status: the budget and the spending requests
\* of the month, as the store holds them, are drawn at the start, one step
\* computes the status
\* ------------------------------------------------------------------------
MonthRequests == [amount : {50, 100, 3500}, status : {"Pending", "Approved", "Denied"}]

InitBudget ==
    /\ InitClient /\ cacheEnabled /\ store = AllPending
    /\ input \in [fn : {"getMonthlyBudgetStatus"}, monthlyBudget : {0, 1000, 3000},
                  spending : UpTo2(MonthRequests)]
    /\ output = NoOutput

GetMonthlyBudgetStatus ==
    /\ input.fn = "getMonthlyBudgetStatus"
    /\ output = NoOutput
    /\ output' = BudgetStatusOf(input.monthlyBudget)
    /\ UNCHANGED <<client, input>>

NextBudget == GetMonthlyBudgetStatus

SpecBudget == InitBudget /\ [][NextBudget]_vars

\* C28: the budget status reports as currentSpending the amounts of the
\* month's Pending and Approved requests, and as remainingBudget the budget
\* less that
C28_BudgetStatusTracksSpending ==
    output.fn = "getMonthlyBudgetStatus" =>
        /\ output.currentSpending = CountedTotal(input.spending)
        /\ output.remainingBudget = output.monthlyBudget - CountedTotal(input.spending)

\* C29: a recommendation approves exactly when the amount is within the
\* remaining budget, whatever the health score, the conflicting goals and
\* the high-priority debts, and has alternatives exactly when it denies
C29_ApprovedIffWithinBudget ==
    (input.fn = "generateRecommendation" /\ output # NoOutput) =>
        /\ output.shouldApprove <=> (input.request.amount <= input.budget.remainingBudget)
        /\ (Len(output.alternatives) > 0) <=> ~output.shouldApprove

\* a request within the remaining budget was approved with a confidence of
\* 30 or less: poor health, a conflicting goal and a high-priority debt
C29_Witness ==
    /\ input.fn = "generateRecommendation" /\ output # NoOutput
    /\ input.request.amount <= input.budget.remainingBudget
    /\ input.financialHealth.score < 50
    /\ input.conflictingGoals # <<>>
    /\ input.highPriorityDebts # <<>>
    /\ output.confidence <= 30
    /\ output.shouldApprove
    /\ output.alternatives = <<>>

\* ------------------------------------------------------------------------
\* The rate limiter under the event loop's scheduling: a resolved promise's
\* continuation runs, a timer that is due fires, and the clock advances up
\* to the horizon MaxTime
\* ------------------------------------------------------------------------
EventLoopFairness ==
    /\ WF_vars(ProcessQueueWake)
    /\ WF_vars(Tick)
    /\ \A s \in Slots : WF_vars(Send(s)) /\ WF_vars(Timeout(s)) /\ WF_vars(BackoffWake(s))

SpecLimiterLive == InitRetry /\ [][NextLimiter]_vars /\ EventLoopFairness

\* the resolver of slot s is the i-th of the queue
QueuePosition(s) == CHOOSE i \in 1..Len(requestQueue) : requestQueue[i] = s

\* the time at which the drain loop reaches the resolver of slot s: one
\* sleep of MinInterval for each resolver ahead of it
ReleaseDue(s) == queueWake + (QueuePosition(s) - 1) * MinInterval

\* the requests waiting in enforceRateLimit are the queued resolvers, and
\* the drain loop sleeps exactly while there are any
DrainRunsWhileQueued ==
    /\ \A s \in Slots : call[s].pc = "rate" <=> \E i \in 1..Len(requestQueue) : requestQueue[i] = s
    /\ isProcessingQueue <=> requestQueue # <<>>
    /\ isProcessingQueue <=> queueWake # NoTimer

\* a request queued behind a running drain loop starts no second loop: the
\* sleep of the running one is left as it is
NoSecondDrain ==
    (isProcessingQueue /\ Len(requestQueue') > Len(requestQueue)) => queueWake' = queueWake

\* C30: every request that enters enforceRateLimit is eventually released:
\* the drain loop runs exactly while requests are queued (isProcessingQueue
\* is false when the queue is empty), a request queued behind a running
\* drain starts no second one, and every queued request whose turn falls
\* within the horizon leaves the limiter.
C30_QueuedRequestsReleased ==
    /\ []DrainRunsWhileQueued
    /\ [][NoSecondDrain]_vars
    /\ \A s \in Slots :
          (call[s].pc = "rate" /\ ReleaseDue(s) <= MaxTime) ~> (call[s].pc = "released")

\* the drain loop has released a request that waited in the queue and goes
\* on for the request queued behind it
C30_Witness ==
    \E s, t \in Slots :
        /\ call[s].pc = "released" /\ metrics[s].startTime < now
        /\ call[t].pc = "rate" /\ ReleaseDue(t) <= MaxTime
        /\ isProcessingQueue

====
